---- MODULE Spec2Model ----
(***************************************************************************)
(* Model of the AI interview simulator's orchestration core:               *)
(*   core/workflow.py   InterviewWorkflow (run_full_interview,             *)
(*                      run_quick_practice, run_single_round, ...)         *)
(*   web/app.py         the socket.io transport (start_interview,          *)
(*                      submit_answer, skip_question, end_interview)       *)
(*   core/memory.py     UserMemory (CandidateMemory) and SessionMemory     *)
(*   agents/base_agent.py, agents/committee_agent.py, core/llm_client.py   *)
(*                                                                         *)
(* Texts (questions, answers, feedback) are abstracted to the properties   *)
(* the code reads of them.  Scores handed back by the generation service   *)
(* are rationals kept in tenths (79 is 7.9); scores kept in histories and  *)
(* averages are kept in hundredths (608 is 6.08).                          *)
(***************************************************************************)
EXTENDS Integers, Sequences, FiniteSets, TLC

(***************************************************************************)
(* config.py                                                               *)
(***************************************************************************)
SCORE_MIN == 0
SCORE_MAX == 10

\* INTERVIEW_ROUNDS, config.py:75
INTERVIEW_ROUNDS == <<"HR", "HiringManager", "Technical", "CultureFit", "Committee">>

\* self.agents of InterviewWorkflow.__init__ (its keys)
AgentKeys == {"HR", "HiringManager", "Technical", "CultureFit"}

\* a round order built without the filter: the panel role stays in it
RoundOrderUnfiltered == INTERVIEW_ROUNDS

\* self.round_order = [r for r in INTERVIEW_ROUNDS if r != "Committee"]
RoundOrder == SelectSeq(INTERVIEW_ROUNDS, LAMBDA r : r # "Committee")

\* FOLLOW_UP_CONFIG
FOLLOW_UP_ENABLED == TRUE
MAX_FOLLOW_UPS == 1
TRIGGER_SCORE_THRESHOLD == 6
\* indices of FOLLOW_UP_CONFIG["trigger_keywords"], in list order
TriggerKeywords == <<1, 2, 3, 4>>
\* len(answer.strip()) < 50 in should_follow_up
BRIEF_ANSWER_LEN == 50

\* the follow-up settings as config.py ships them; roles are the roles whose
\* INTERVIEW_ROUNDS_CONFIG[role]["follow_up_enabled"] is True (default False):
\* each of the four interviewer roles
ShippedConfig ==
    [enabled |-> FOLLOW_UP_ENABLED, max_follow_ups |-> MAX_FOLLOW_UPS,
     roles |-> {role \in AgentKeys : TRUE}]

VARIABLES
    follow_up_config,   \* the settings in effect: FOLLOW_UP_CONFIG["enabled"],
                        \* FOLLOW_UP_CONFIG["max_follow_ups"] and the roles whose
                        \* INTERVIEW_ROUNDS_CONFIG entry has follow_up_enabled set
    callbacks           \* the lifecycle callbacks the caller hands the engine:
                        \* "none", "observing" (they display what they are handed,
                        \* as those of main.py do) or "rewriting" (on_evaluation
                        \* sets the score of the dict it is handed to 0)

\* An excerpt of the controlled vocabularies WEAKNESS_TAGS / STRENGTH_TAGS
\* (two weakness tags and one strength tag of the 19 + 19 tags of config.py).
WEAKNESS_TAGS == {"w_structure", "w_sql"}
STRENGTH_TAGS == {"s_structure"}
\* a tag of neither vocabulary
UnknownTag == "not_in_vocabulary"

\* SCORE_LEVELS / get_score_level: the decision of a score (whole points)
GetScoreLevelDecision(score) ==
    IF 9 <= score /\ score <= 10 THEN "strong_recommend"
    ELSE IF 7 <= score /\ score <= 8 THEN "recommend"
    ELSE IF 5 <= score /\ score <= 6 THEN "waitlist_observe"
    ELSE IF 3 <= score /\ score <= 4 THEN "not_recommended_yet"
    ELSE IF 0 <= score /\ score <= 2 THEN "reject"
    ELSE "waitlist_observe"

(***************************************************************************)
(* Values the generation service hands back.                               *)
(*   a number field: [t |-> "absent" | "null" | "str" | "num" | "bool" |   *)
(*                         "nonfinite", v |-> tenths]                      *)
(*     ("nonfinite": NaN, Infinity, or a literal beyond the float range    *)
(*      such as 1e999, which json.loads reads as inf)                      *)
(*   a list field:   [t |-> "absent" | "null" | "list", items |-> Seq]     *)
(***************************************************************************)
NumTenths(v) == [t |-> "num", v |-> v]
NoList == [t |-> "absent", items |-> <<>>]
ListOf(s) == [t |-> "list", items |-> s]

\* Python int(x) of a float: truncation toward zero (x in tenths)
PyInt(tenths) ==
    IF tenths >= 0 THEN tenths \div 10 ELSE 0 - ((0 - tenths) \div 10)

Max2(a, b) == IF a >= b THEN a ELSE b
Min2(a, b) == IF a <= b THEN a ELSE b

(***************************************************************************)
(* core/llm_client.py                                                      *)
(*   A response text of the service is [kind, payload]:                    *)
(*     "json"      the text is one JSON value (payload)                    *)
(*     "fenced"    the JSON value inside a ``` / ```json code block        *)
(*     "embedded"  prose around one JSON object or array                   *)
(*     "garbage"   no JSON in it                                           *)
(*     "failed"    the placeholder chat() returns once every retry failed  *)
(*   A payload is a parsed JSON value: [type |-> "dict", ...],             *)
(*   [type |-> "list"] or [type |-> "num"].                                *)
(***************************************************************************)
\* LLMClient.generate_json: the service's text, parsed by _parse_json_response;
\* a text it cannot parse gives {"error": ..., "raw": original_response}
GenerateJson(response) ==
    IF response.kind \in {"json", "fenced"} THEN response.payload
    ELSE IF response.kind = "embedded" /\ response.payload.type \in {"dict", "list"}
         THEN response.payload
    ELSE [type |-> "dict", error |-> TRUE, raw |-> "original_response"]

(***************************************************************************)
(* The same client at the level of the characters of a text, for the       *)
(* texts chat() builds itself.  A text is a sequence over "{", "}", "[",   *)
(* "]" and "x", where "x" is any run of characters without brackets,       *)
(* braces or surrounding white space that is not a JSON value.             *)
(***************************************************************************)
\* config.py: API_MAX_RETRIES and API_RETRY_DELAY (seconds)
API_MAX_RETRIES == 3
API_RETRY_DELAY == 2

\* the longest text of an exception considered
MaxMessageLen == 2

\* json.loads(text) returns: over these characters a JSON value is {}, [] or
\* [value]; otherwise it raises JSONDecodeError
RECURSIVE JsonLoads(_)
JsonLoads(text) ==
    \/ text = <<"{", "}">>
    \/ /\ Len(text) >= 2
       /\ text[1] = "["
       /\ text[Len(text)] = "]"
       /\ (Len(text) = 2 \/ JsonLoads(SubSeq(text, 2, Len(text) - 1)))

\* LLMClient._parse_json_response on such a text (no code fence in it): the
\* text itself, else what lies from its first "{" to its last "}", else what
\* lies from its first "[" to its last "]", else the error dict
ParseJsonText(response) ==
    LET Find(ch) ==
            IF \E i \in DOMAIN response : response[i] = ch
            THEN CHOOSE i \in DOMAIN response :
                     response[i] = ch /\ \A j \in 1..(i - 1) : response[j] # ch
            ELSE 0
        RFind(ch) ==
            IF \E i \in DOMAIN response : response[i] = ch
            THEN CHOOSE i \in DOMAIN response :
                     response[i] = ch /\ \A j \in (i + 1)..Len(response) : response[j] # ch
            ELSE 0
        Between(open, close) == SubSeq(response, Find(open), RFind(close))
        Extracts(open, close) ==
            /\ Find(open) # 0
            /\ RFind(close) > Find(open)
            /\ JsonLoads(Between(open, close))
    IN  IF JsonLoads(response) THEN [error |-> FALSE, value |-> response]
        ELSE IF Extracts("{", "}") THEN [error |-> FALSE, value |-> Between("{", "}")]
        ELSE IF Extracts("[", "]") THEN [error |-> FALSE, value |-> Between("[", "]")]
        ELSE [error |-> TRUE, raw |-> response]

(***************************************************************************)
(* agents/base_agent.py                                                    *)
(***************************************************************************)
Raised == [raised |-> TRUE]

\* the clamp of _normalize_evaluation_result: max(SCORE_MIN, min(SCORE_MAX, int(score)))
ClampScore(tenths) == Max2(SCORE_MIN, Min2(SCORE_MAX, PyInt(tenths)))

\* the score branch of _normalize_evaluation_result (isinstance(score, (int, float)))
NormalizeScore(score) ==
    IF score.t \in {"num", "bool"} THEN ClampScore(score.v) ELSE 5

\* the list taken over without the vocabulary test
FilterTagsUnfiltered(field, vocabulary) ==
    IF field.t = "list" THEN field.items ELSE <<>>

\* [t for t in result.get(field, []) if t in VOCABULARY]
FilterTags(field, vocabulary) ==
    IF field.t = "list" THEN SelectSeq(field.items, LAMBDA t : t \in vocabulary)
    ELSE <<>>

\* the inputs on which _normalize_evaluation_result raises instead of returning:
\* a result that is no dict ("error" in 5, [..].get), a score that is NaN or
\* infinite (int(nan), int(inf)), a null tag list (iterating None)
NormalizeRaises(result) ==
    \/ result.type # "dict"
    \/ /\ ~result.error
       /\ \/ result.score.t = "nonfinite"
          \/ result.weakness_tags.t = "null"
          \/ result.strength_tags.t = "null"

\* result.get("raw", "")
RawOf(result) == IF result.raw = "absent" THEN "" ELSE result.raw

\* result.get("key_points", [])
KeyPointsOf(result) ==
    IF "key_points" \in DOMAIN result THEN result.key_points ELSE <<>>

\* a fallback that takes the score and the key points of the marked result over
NormalizeEvaluationResultLeaky(result) ==
    IF NormalizeRaises(result) THEN Raised
    ELSE IF result.error
    THEN [raised |-> FALSE,
          score |-> IF "score" \in DOMAIN result /\ result.score.t = "num"
                    THEN ClampScore(result.score.v) ELSE 5,
          feedback |-> "generic_failure_text",
          weakness_tags |-> <<>>, strength_tags |-> <<>>, key_points |-> KeyPointsOf(result),
          raw_error |-> RawOf(result)]
    ELSE [raised |-> FALSE,
          score |-> NormalizeScore(result.score),
          feedback |-> IF result.feedback = "absent" THEN "" ELSE result.feedback,
          weakness_tags |-> FilterTags(result.weakness_tags, WEAKNESS_TAGS),
          strength_tags |-> FilterTags(result.strength_tags, STRENGTH_TAGS),
          key_points |-> KeyPointsOf(result),
          raw_error |-> "absent"]

\* BaseAgent._normalize_evaluation_result (raw_error "absent": the record has no
\* such key)
NormalizeEvaluationResult(result) ==
    IF NormalizeRaises(result) THEN Raised
    ELSE IF result.error
    THEN [raised |-> FALSE, score |-> 5, feedback |-> "generic_failure_text",
          weakness_tags |-> <<>>, strength_tags |-> <<>>, key_points |-> <<>>,
          raw_error |-> RawOf(result)]
    ELSE [raised |-> FALSE,
          score |-> NormalizeScore(result.score),
          feedback |-> IF result.feedback = "absent" THEN "" ELSE result.feedback,
          weakness_tags |-> FilterTags(result.weakness_tags, WEAKNESS_TAGS),
          strength_tags |-> FilterTags(result.strength_tags, STRENGTH_TAGS),
          key_points |-> KeyPointsOf(result),
          raw_error |-> "absent"]

\* BaseAgent.evaluate_answer: generate_json, then _normalize_evaluation_result
EvaluateAnswer(response) == NormalizeEvaluationResult(GenerateJson(response))

\* the keyword loop returning the last configured keyword found in the answer
LastKeyword(answer) ==
    LET hits == SelectSeq(TriggerKeywords, LAMBDA k : k \in answer.kws)
    IN  IF hits = <<>> THEN 0 ELSE hits[Len(hits)]

\* the keyword loop of should_follow_up: the first configured keyword found in
\* the answer (0 when none is)
FirstKeyword(answer) ==
    LET hits == SelectSeq(TriggerKeywords, LAMBDA k : k \in answer.kws)
    IN  IF hits = <<>> THEN 0 ELSE Head(hits)

\* BaseAgent.should_follow_up -> (follow, reason)
ShouldFollowUp(answer, evaluation) ==
    IF ~follow_up_config.enabled THEN [follow |-> FALSE, reason |-> "", kw |-> 0]
    ELSE IF evaluation.score < TRIGGER_SCORE_THRESHOLD
         THEN [follow |-> TRUE, reason |-> "needs_more_detail", kw |-> 0]
    ELSE IF FirstKeyword(answer) # 0
         THEN [follow |-> TRUE, reason |-> "keyword", kw |-> FirstKeyword(answer)]
    ELSE IF answer.len < BRIEF_ANSWER_LEN
         THEN [follow |-> TRUE, reason |-> "too_brief", kw |-> 0]
    ELSE [follow |-> FALSE, reason |-> "", kw |-> 0]

(***************************************************************************)
(* core/memory.py : SessionMemory                                          *)
(***************************************************************************)
\* SessionMemory.__init__
NoneValue == [set |-> FALSE]
NewSession == [rounds |-> <<>>, final_evaluation |-> NoneValue]

\* an add_round that, for a follow-up, also stores the follow-up's score in the
\* RoundResult before it
AddRoundOverwriting(session, role, evaluation, is_follow_up) ==
    LET entry == [role |-> role,
                  score |-> evaluation.score,
                  feedback |-> evaluation.feedback,
                  weakness_tags |-> evaluation.weakness_tags,
                  strength_tags |-> evaluation.strength_tags,
                  is_follow_up |-> is_follow_up]
        n == Len(session.rounds)
    IN  IF is_follow_up /\ n > 0
        THEN [session EXCEPT !.rounds =
                 Append([@ EXCEPT ![n].score = evaluation.score], entry)]
        ELSE [session EXCEPT !.rounds = Append(@, entry)]

\* SessionMemory.add_round
AddRound(session, role, evaluation, is_follow_up) ==
    [session EXCEPT !.rounds = Append(@,
        [role |-> role,
         score |-> evaluation.score,
         feedback |-> evaluation.feedback,
         weakness_tags |-> evaluation.weakness_tags,
         strength_tags |-> evaluation.strength_tags,
         is_follow_up |-> is_follow_up])]

\* SessionMemory.set_final_evaluation
SetFinalEvaluation(session, evaluation) ==
    [session EXCEPT !.final_evaluation = evaluation]

Range(seq) == {seq[i] : i \in DOMAIN seq}

\* the tags of one field over all rounds, as a set
TagSetOf(rounds, field) ==
    UNION {Range(rounds[i][field]) : i \in DOMAIN rounds}

\* every ordering of a set, as sequences: list(set(tags)) may come in any of them
Orderings(S) ==
    {q \in [1..Cardinality(S) -> S] : \A i, j \in 1..Cardinality(S) : q[i] = q[j] => i = j}

\* SessionMemory.get_all_weakness_tags: list(set(...)), in an order of the set's choosing
GetAllWeaknessTags(session) == Orderings(TagSetOf(session.rounds, "weakness_tags"))

\* SessionMemory.get_all_strength_tags
GetAllStrengthTags(session) == Orderings(TagSetOf(session.rounds, "strength_tags"))

(***************************************************************************)
(* Python floats (IEEE 754 binary64, round to nearest, ties to even).      *)
(* A natural below 2^63 is written in three limbs of 21 bits, the least    *)
(* significant first, the integers of TLC being 32 bits wide.  A float x   *)
(* with 0 <= x < 64 that is a multiple of 2^-56 is kept as the natural     *)
(* x * 2^56: every weight, product and sum of _calculate_weighted_score is *)
(* such a float, and so is every score, sum and mean of the trend of       *)
(* _update_statistics.                                                     *)
(***************************************************************************)
LimbBits == 21
Limb == 2 ^ LimbBits
MantissaBits == 53
FixedBits == 56

Wide(n) == <<n, 0, 0>>

Carry(t) ==
    LET l1 == t[1] % Limb
        c1 == t[1] \div Limb
        l2 == (t[2] + c1) % Limb
        c2 == (t[2] + c1) \div Limb
    IN  <<l1, l2, t[3] + c2>>

WAdd(a, b) == Carry(<<a[1] + b[1], a[2] + b[2], a[3] + b[3]>>)

\* a * k for 0 <= k <= 100
WTimes(a, k) == Carry(<<a[1] * k, a[2] * k, a[3] * k>>)

WLess(a, b) ==
    \/ a[3] < b[3]
    \/ a[3] = b[3] /\ a[2] < b[2]
    \/ a[3] = b[3] /\ a[2] = b[2] /\ a[1] < b[1]

\* a - b for a >= b
WMinus(a, b) ==
    LET d1 == a[1] - b[1]
        b1 == IF d1 < 0 THEN 1 ELSE 0
        d2 == a[2] - b[2] - b1
        b2 == IF d2 < 0 THEN 1 ELSE 0
    IN  <<d1 + b1 * Limb, d2 + b2 * Limb, a[3] - b[3] - b2>>

\* limb i of a, 0 outside 1..3
LimbAt(a, i) == IF i \in 1..3 THEN a[i] ELSE 0

\* a \div 2^k
WShiftRight(a, k) ==
    LET q == k \div LimbBits
        r == k % LimbBits
    IN  [i \in 1..3 |-> LimbAt(a, i + q) \div 2 ^ r
                         + (LimbAt(a, i + q + 1) % 2 ^ r) * 2 ^ (LimbBits - r)]

\* a * 2^k, below 2^63
WShiftLeft(a, k) ==
    LET q == k \div LimbBits
        r == k % LimbBits
    IN  [i \in 1..3 |-> (LimbAt(a, i - q) % 2 ^ (LimbBits - r)) * 2 ^ r
                         + LimbAt(a, i - q - 1) \div 2 ^ (LimbBits - r)]

RECURSIVE BitLength(_)
BitLength(n) == IF n = 0 THEN 0 ELSE 1 + BitLength(n \div 2)

WBitLength(a) ==
    IF a[3] # 0 THEN 2 * LimbBits + BitLength(a[3])
    ELSE IF a[2] # 0 THEN LimbBits + BitLength(a[2])
    ELSE BitLength(a[1])

\* a / 2^k rounded to the nearest natural, a tie going to the even one
RoundShift(a, k) ==
    IF k = 0 THEN a
    ELSE LET kept == WShiftRight(a, k)
             guard == WShiftRight(a, k - 1)[1] % 2 = 1
             sticky == WShiftLeft(WShiftRight(a, k - 1), k - 1) # a
         IN  IF guard /\ (sticky \/ kept[1] % 2 = 1) THEN WAdd(kept, Wide(1)) ELSE kept

\* the float nearest to the exact value a * 2^-56
FloatRound(a) ==
    LET k == WBitLength(a) - MantissaBits
    IN  IF k <= 0 THEN a ELSE WShiftLeft(RoundShift(a, k), k)

\* the whole part of r / y: [q, r] with r < y
RECURSIVE WholeQuotient(_, _, _)
WholeQuotient(r, y, q) ==
    IF WLess(r, y) THEN [q |-> q, r |-> r]
    ELSE WholeQuotient(WMinus(r, y), y, q + 1)

\* long division: q holds the quotient's bits so far, f of them after the
\* point, and r < y is the remainder; it stops at 54 significant bits (one past
\* the mantissa) or when the division comes out even
RECURSIVE QuotientBits(_, _, _, _)
QuotientBits(q, r, y, f) ==
    IF r = Wide(0) \/ q[3] >= 2 ^ (MantissaBits - 2 * LimbBits)
    THEN [q |-> q, r |-> r, f |-> f]
    ELSE LET r2 == WAdd(r, r)
         IN  IF WLess(r2, y)
             THEN QuotientBits(WAdd(q, q), r2, y, f + 1)
             ELSE QuotientBits(WAdd(WAdd(q, q), Wide(1)), WMinus(r2, y), y, f + 1)

\* x / y for y > 0, x < 100 * y: the float m * 2^-f nearest to the quotient
FloatDiv(x, y) ==
    CHOOSE quotient \in
        {IF WBitLength(bits.q) <= MantissaBits THEN [m |-> bits.q, f |-> bits.f]
         ELSE CHOOSE rounded \in
                 {IF bits.q[1] % 2 = 1 /\ (bits.r # Wide(0) \/ kept[1] % 2 = 1)
                  THEN [m |-> WAdd(kept, Wide(1)), f |-> bits.f - 1]
                  ELSE [m |-> kept, f |-> bits.f - 1] :
                     kept \in {WShiftRight(bits.q, 1)}} : TRUE :
            bits \in {QuotientBits(Wide(whole.q), whole.r, y, 0) :
                         whole \in {WholeQuotient(x, y, 0)}}} : TRUE

RECURSIVE SumSeq(_)
SumSeq(s) == IF s = <<>> THEN 0 ELSE Head(s) + SumSeq(Tail(s))

\* Python round(): the integer nearest to num / den, a tie going to the even one
RoundHalfEven(num, den) ==
    LET q == num \div den
        r == num % den
    IN  IF 2 * r < den THEN q
        ELSE IF 2 * r > den THEN q + 1
        ELSE IF q % 2 = 0 THEN q ELSE q + 1

\* round(num / den, 2), in hundredths
RoundDiv(num, den) == RoundHalfEven(100 * num, den)

Scores(rounds) == [i \in DOMAIN rounds |-> rounds[i].score]

\* the mean of the main rounds only
GetAverageScoreOfMainRounds(session) ==
    LET main == SelectSeq(session.rounds, LAMBDA r : ~r.is_follow_up)
    IN  IF main = <<>> THEN 0 ELSE RoundDiv(SumSeq(Scores(main)), Len(main))

\* SessionMemory.get_average_score, in hundredths
GetAverageScore(session) ==
    IF session.rounds = <<>> THEN 0
    ELSE RoundDiv(SumSeq(Scores(session.rounds)), Len(session.rounds))

\* SessionMemory.get_context_for_next_round: the last three main rounds (role, score)
GetContextForNextRound(session) ==
    LET main == SelectSeq(session.rounds, LAMBDA r : ~r.is_follow_up)
        from == Max2(1, Len(main) - 2)
    IN  [i \in 1..(Len(main) - from + 1) |->
            [role |-> main[from + i - 1].role, score |-> main[from + i - 1].score]]

\* SessionMemory.save: the record written (to_dict), appended to the session store
SessionToDict(session) ==
    [rounds |-> session.rounds, final_evaluation |-> session.final_evaluation,
     average_score |-> GetAverageScore(session)]

(***************************************************************************)
(* core/memory.py : UserMemory (the CandidateMemory of one candidate id)   *)
(*   A tag map is the dict in insertion order: a sequence of [tag, n].     *)
(***************************************************************************)
\* UserMemory._default_profile()["statistics"]
DefaultStatistics ==
    [total_interviews |-> 0, average_score |-> 0, best_score |-> 0,
     recent_trend |-> "", most_common_weakness |-> "", most_common_strength |-> ""]

\* UserMemory._default_profile
DefaultProfile ==
    [weakness_tags |-> <<>>, strength_tags |-> <<>>, interview_history |-> <<>>,
     statistics |-> DefaultStatistics]

\* the persisted record of a candidate id that has none yet
NoFile == [exists |-> FALSE]

\* the merge without its inner loop: absent top-level keys only
MergeDefaultsShallow(loaded) ==
    [key \in DOMAIN DefaultProfile \cup DOMAIN loaded |->
        IF key \notin DOMAIN loaded THEN DefaultProfile[key] ELSE loaded[key]]

\* the merge of UserMemory._load: absent keys from the defaults, one level deep
\* (statistics is the default with keys of its own; the tag maps default to {})
MergeDefaults(loaded) ==
    [key \in DOMAIN DefaultProfile \cup DOMAIN loaded |->
        IF key \notin DOMAIN loaded THEN DefaultProfile[key]
        ELSE IF key = "statistics"
        THEN [k \in DOMAIN DefaultStatistics \cup DOMAIN loaded[key] |->
                 IF k \in DOMAIN loaded[key] THEN loaded[key][k]
                 ELSE DefaultStatistics[k]]
        ELSE loaded[key]]

\* UserMemory.__init__ / _load
LoadUser(file) ==
    IF file.exists THEN MergeDefaults(file.data) ELSE DefaultProfile

TagIndex(map, tag) ==
    IF \E i \in DOMAIN map : map[i].tag = tag
    THEN CHOOSE i \in DOMAIN map : map[i].tag = tag
    ELSE 0

\* the loop of add_weakness_tags / add_strength_tags over one tag list
RECURSIVE AddTags(_, _)
AddTags(map, tags) ==
    IF tags = <<>> THEN map
    ELSE LET tag == Head(tags)
             \* map[tag] = map.get(tag, 0) + 1
             bumped == IF TagIndex(map, tag) = 0 THEN Append(map, [tag |-> tag, n |-> 1])
                       ELSE [map EXCEPT ![TagIndex(map, tag)].n = @ + 1]
         IN  AddTags(IF tag # "" THEN bumped ELSE map, Tail(tags))

\* UserMemory.add_weakness_tags
AddWeaknessTags(data, tags) ==
    [data EXCEPT !.weakness_tags = AddTags(@, tags)]

\* UserMemory.add_strength_tags
AddStrengthTags(data, tags) ==
    [data EXCEPT !.strength_tags = AddTags(@, tags)]

\* UserMemory.add_interview_summary
AddInterviewSummary(data, summary) ==
    [data EXCEPT !.interview_history = Append(@, summary)]

\* sorted(tags.items(), key=count, reverse=True)[:1]: the first of the entries
\* with the largest count, in insertion order ("" when the map is empty)
TopTag(map) ==
    IF map = <<>> THEN ""
    ELSE LET best == CHOOSE i \in DOMAIN map :
                        /\ \A j \in DOMAIN map : map[j].n <= map[i].n
                        /\ \A j \in DOMAIN map : map[j].n = map[i].n => i <= j
         IN  map[best].tag

\* sum() over the first k of the scores (hundredths), each the float of its
\* decimal, added from left to right, every sum rounded to a float
RECURSIVE FloatSum(_, _)
FloatSum(scores, k) ==
    IF k = 0 THEN Wide(0)
    ELSE CHOOSE t \in {FloatRound(WAdd(before, WShiftLeft(score.m, FixedBits - score.f))) :
                          before \in {FloatSum(scores, k - 1)},
                          score \in {FloatDiv(Wide(scores[k]), Wide(100))}} : TRUE

\* sum(scores) / len(scores): the float m * 2^-f
FloatMean(scores) ==
    CHOOSE x \in {FloatDiv(t, WShiftLeft(Wide(Len(scores)), FixedBits)) :
                     t \in {FloatSum(scores, Len(scores))}} : TRUE

\* the mean of the last three scores and the mean of the earlier ones are
\* exactly 0.5 apart (scores in hundredths)
TrendAtHalf(scores) ==
    LET n == Len(scores)
        recent3 == SumSeq(SubSeq(scores, n - 2, n))
        earlier_sum == SumSeq(SubSeq(scores, 1, n - 3))
    IN  \/ recent3 * (n - 3) = earlier_sum * 3 + 50 * 3 * (n - 3)
        \/ recent3 * (n - 3) = earlier_sum * 3 - 50 * 3 * (n - 3)

\* the trend branch of _update_statistics (four or more scores): the mean of
\* the last three scores against the mean of the earlier ones plus or minus
\* 0.5.  Away from an exact difference of 0.5 the floats order the two sides
\* as the exact values do (the sides are then at least 1/(300 * (n - 3)) apart,
\* the floats within 2^-48 of them); at an exact difference of 0.5 the result
\* is what the floats give: mean holds the float means of the two parts, and
\* earlier + 0.5 and earlier - 0.5 are each rounded to a float
RecentTrend(scores, mean) ==
    LET n == Len(scores)
        recent3 == SumSeq(SubSeq(scores, n - 2, n))
        earlier_sum == SumSeq(SubSeq(scores, 1, n - 3))
        half == WShiftLeft(Wide(1), FixedBits - 1)
    IN  IF ~TrendAtHalf(scores)
        THEN IF recent3 * (n - 3) > earlier_sum * 3 + 50 * 3 * (n - 3) THEN "improving"
             ELSE IF recent3 * (n - 3) < earlier_sum * 3 - 50 * 3 * (n - 3) THEN "declining"
             ELSE "stable"
        ELSE CHOOSE trend \in
            {IF WLess(bound["above"], recent) THEN "improving"
             ELSE IF ~WLess(earlier, half) /\ WLess(recent, bound["below"])
                  THEN "declining"
             ELSE "stable" :
                recent \in {WShiftLeft(x.m, FixedBits - x.f) :
                               x \in {mean[SubSeq(scores, n - 2, n)]}},
                bound \in {[side \in {"above", "below"} |->
                               FloatRound(IF side = "above" THEN WAdd(earlier, half)
                                          ELSE IF WLess(earlier, half) THEN Wide(0)
                                          ELSE WMinus(earlier, half))] :
                              earlier \in {WShiftLeft(x.m, FixedBits - x.f) :
                                              x \in {mean[SubSeq(scores, 1, n - 3)]}}},
                earlier \in {WShiftLeft(x.m, FixedBits - x.f) :
                                x \in {mean[SubSeq(scores, 1, n - 3)]}}} : TRUE

\* UserMemory._update_statistics.  round(sum(scores) / len(scores), 2) is the
\* hundredth nearest to the exact mean unless that mean is halfway between two
\* hundredths, where it is rounded as the floats fall.  mean holds the float
\* sum(part) / len(part) of the score lists the floats are needed for.
UpdateStatistics(data) ==
    LET history == data.interview_history
        scores == SelectSeq([i \in DOMAIN history |-> history[i].final_score],
                            LAMBDA x : x # 0)
        n == Len(scores)
        halfway == (2 * SumSeq(scores)) % n = 0 /\ SumSeq(scores) % n # 0
        parts == (IF halfway THEN {scores} ELSE {}) \cup
                 (IF n >= 4 /\ TrendAtHalf(scores)
                  THEN {SubSeq(scores, n - 2, n), SubSeq(scores, 1, n - 3)}
                  ELSE {})
        s0 == [data.statistics EXCEPT !.total_interviews = Len(history)]
        s1 == IF scores # <<>>
              THEN CHOOSE s \in
                      {[s0 EXCEPT
                          !.average_score =
                              IF halfway
                              THEN RoundShift(WTimes(mean[scores].m, 100), mean[scores].f)[1]
                              ELSE RoundHalfEven(SumSeq(scores), n),
                          !.best_score = CHOOSE x \in Range(scores) :
                                            \A y \in Range(scores) : y <= x,
                          !.recent_trend =
                              IF n >= 4
                              THEN RecentTrend(scores, mean)
                              ELSE @] :
                       mean \in {[part \in parts |-> FloatMean(part)]}} : TRUE
              ELSE s0
    IN  [data EXCEPT !.statistics =
            CHOOSE s3 \in
                {IF data.strength_tags # <<>>
                 THEN [s2 EXCEPT !.most_common_strength = TopTag(data.strength_tags)]
                 ELSE s2 :
                    s2 \in {IF data.weakness_tags # <<>>
                            THEN [scored EXCEPT !.most_common_weakness =
                                                   TopTag(data.weakness_tags)]
                            ELSE scored : scored \in {s1}}} : TRUE]

\* a save that counts itself in total_interviews
SaveUserCountingSaves(data) ==
    [UpdateStatistics(data) EXCEPT
        !.statistics.total_interviews = data.statistics.total_interviews + 1]

\* UserMemory.save: the statistics are recomputed, then the record is written
SaveUser(data) == UpdateStatistics(data)

\* the file UserMemory.save leaves behind
FileOf(data) == [exists |-> TRUE, data |-> data]

(***************************************************************************)
(* Roles as stored in a RoundResult: the agent key and, for the engine's   *)
(* follow-up entries, the "_followup" suffix.                              *)
(***************************************************************************)
MainRole(key) == [base |-> key, suffix |-> ""]

\* f"{agent.role}_followup" in _handle_follow_up
FollowUpRole(key) == [base |-> key, suffix |-> "_followup"]

\* r["role"] kept as it is
StripFollowUpNot(role) == role

\* r["role"].replace("_followup", "")
StripFollowUp(role) == [base |-> role.base, suffix |-> ""]

\* InterviewWorkflow.get_round_weight, in hundredths (0.2 when the key is unknown)
GetRoundWeight(role) ==
    IF role.suffix # "" THEN 20
    ELSE IF role.base = "HR" THEN 15
    ELSE IF role.base = "HiringManager" THEN 25
    ELSE IF role.base = "Technical" THEN 35
    ELSE IF role.base = "CultureFit" THEN 15
    ELSE IF role.base = "Committee" THEN 10
    ELSE 20

\* the floats of the weights of INTERVIEW_ROUNDS_CONFIG and of the default 0.2
\* (the float of a literal with two decimals: 0.15 is the one of 15)
WeightFloat ==
    [h \in {10, 15, 20, 25, 35} |->
        CHOOSE w \in {WShiftLeft(x.m, FixedBits - x.f) :
                         x \in {FloatDiv(Wide(h), Wide(100))}} : TRUE]

\* the loop of _calculate_weighted_score over the first n rounds, every product
\* and sum rounded to a float
RECURSIVE WeightedSums(_, _)
WeightedSums(rounds, n) ==
    IF n = 0 THEN [weighted_sum |-> Wide(0), total_weight |-> Wide(0)]
    ELSE LET before == WeightedSums(rounds, n - 1)
             weight == WeightFloat[GetRoundWeight(StripFollowUp(rounds[n].role))]
             product == FloatRound(WTimes(weight, rounds[n].score))
         IN  [weighted_sum |-> FloatRound(WAdd(before.weighted_sum, product)),
              total_weight |-> FloatRound(WAdd(before.total_weight, weight))]

\* _calculate_weighted_score as the floats compute it, in hundredths: sums is
\* what the loop leaves, x the float weighted_sum / total_weight, and round(x, 2)
\* of x = m * 2^-f is the decimal nearest to the float's exact value, a tie going
\* to the even one
FloatWeightedScore(rounds) ==
    CHOOSE score \in
        {IF sums.total_weight = Wide(0) THEN 0
         ELSE CHOOSE rounded \in
                  {RoundShift(WTimes(x.m, 100), x.f)[1] :
                      x \in {FloatDiv(sums.weighted_sum, sums.total_weight)}} : TRUE
         : sums \in {WeightedSums(rounds, Len(rounds))}} : TRUE

\* InterviewWorkflow._calculate_weighted_score, in hundredths.  With num / den
\* the exact quotient over the decimal weights, the float quotient is within
\* 2^-40 of it and a quotient that is not halfway between two hundredths is at
\* least 1 / (200 * den) away from halfway: round() then gives the hundredth
\* nearest to num / den.  A quotient that is halfway is rounded as the floats
\* fall.
CalculateWeightedScore(session) ==
    LET rounds == session.rounds
        weights == [i \in DOMAIN rounds |-> GetRoundWeight(StripFollowUp(rounds[i].role))]
        num == SumSeq([i \in DOMAIN rounds |-> rounds[i].score * weights[i]])
        den == SumSeq(weights)
    IN  IF den = 0 THEN 0
        ELSE IF (200 * num) % den = 0 /\ ((200 * num) \div den) % 2 = 1
        THEN FloatWeightedScore(rounds)
        ELSE RoundHalfEven(100 * num, den)

(***************************************************************************)
(* agents/committee_agent.py                                               *)
(*   A panel result is [type |-> "dict", error, final_score, decision]     *)
(*   with decision "absent", a valid decision, or "garbled".               *)
(***************************************************************************)
\* the inputs on which _normalize_final_evaluation raises
FinalNormalizeRaises(result) ==
    \/ result.type # "dict"
    \/ ~result.error /\ result.final_score.t = "nonfinite"

\* a fallback that scores 5 whatever the session's average is
NormalizeFinalEvaluationFixedScore(result, average_score) ==
    IF FinalNormalizeRaises(result) THEN Raised
    ELSE IF result.error
    THEN [raised |-> FALSE, set |-> TRUE, final_score |-> 500,
          decision |-> "waitlist", raw_error |-> RawOf(result),
          comparative_analysis |-> "absent"]
    ELSE LET final_score == IF result.final_score.t \in {"num", "bool"}
                            THEN Max2(0, Min2(10, PyInt(result.final_score.v)))
                            ELSE 5
         IN  [raised |-> FALSE, set |-> TRUE, final_score |-> 100 * final_score,
              decision |-> IF result.decision = "absent"
                           THEN GetScoreLevelDecision(final_score)
                           ELSE result.decision,
              raw_error |-> "absent", comparative_analysis |-> "absent"]

\* CommitteeAgent._normalize_final_evaluation (final_score in hundredths)
NormalizeFinalEvaluation(result, average_score) ==
    IF FinalNormalizeRaises(result) THEN Raised
    ELSE IF result.error
    THEN [raised |-> FALSE, set |-> TRUE, final_score |-> average_score,
          decision |-> "waitlist", raw_error |-> RawOf(result),
          comparative_analysis |-> "absent"]
    ELSE LET final_score == IF result.final_score.t \in {"num", "bool"}
                            THEN Max2(0, Min2(10, PyInt(result.final_score.v)))
                            ELSE 5
         IN  [raised |-> FALSE, set |-> TRUE, final_score |-> 100 * final_score,
              decision |-> IF result.decision = "absent"
                           THEN GetScoreLevelDecision(final_score)
                           ELSE result.decision,
              raw_error |-> "absent", comparative_analysis |-> "absent"]

\* CommitteeAgent.generate_final_evaluation
GenerateFinalEvaluation(response, session) ==
    NormalizeFinalEvaluation(GenerateJson(response), GetAverageScore(session))

\* the comparative analysis requested and attached whatever the history holds
RunCommitteeEvaluationAlwaysComparing(response, comparative, data, session) ==
    LET final_eval == GenerateFinalEvaluation(response, session)
    IN  IF final_eval.raised THEN Raised
        ELSE [final_eval EXCEPT !.comparative_analysis = comparative]

\* InterviewWorkflow.run_committee_evaluation: the final evaluation it stores
\* (comparative is the text generate_comparative_analysis hands back)
RunCommitteeEvaluation(response, comparative, data, session) ==
    LET final_eval == GenerateFinalEvaluation(response, session)
    IN  IF final_eval.raised THEN Raised
        ELSE IF data.interview_history # <<>>
        THEN [final_eval EXCEPT !.comparative_analysis = comparative]
        ELSE final_eval

(***************************************************************************)
(* Inputs: what the candidate answers and what the generation service      *)
(* hands back.                                                             *)
(***************************************************************************)
\* an answer: the trigger keywords it contains and len(answer.strip())
LongAnswer == [kws |-> {}, len |-> 120]
BriefAnswer == [kws |-> {}, len |-> 10]
EvalDict(score, weak, strong) ==
    [type |-> "dict", error |-> FALSE, raw |-> "absent", score |-> score,
     weakness_tags |-> weak, strength_tags |-> strong, feedback |-> "model_feedback"]

NotADict(type) == [type |-> type]

\* a strong evaluation, score above the range, an unknown tag in each list
HighResponse ==
    [kind |-> "json",
     payload |-> EvalDict(NumTenths(125), ListOf(<<"w_sql", UnknownTag, "w_structure">>),
                          ListOf(<<"s_structure", UnknownTag>>))]
\* a weak evaluation, score below the range, a repeated and an unknown weakness tag
LowResponse ==
    [kind |-> "fenced",
     payload |-> EvalDict(NumTenths(0 - 15),
                          ListOf(<<"w_structure", "w_structure", UnknownTag>>), NoList)]
\* text that holds no JSON
GarbageResponse == [kind |-> "garbage", payload |-> NotADict("none")]
\* the placeholder of a failed call
FailedResponse == [kind |-> "failed", payload |-> NotADict("none")]
\* JSON that parses, and is an array
ArrayResponse == [kind |-> "json", payload |-> NotADict("list")]
\* JSON that parses, and is a bare number
NumberResponse == [kind |-> "fenced", payload |-> NotADict("num")]

\* a strong evaluation with one tag of each vocabulary
StrongResponse ==
    [kind |-> "embedded",
     payload |-> EvalDict(NumTenths(88), ListOf(<<"w_sql">>), ListOf(<<"s_structure">>))]

PanelDict(final_score, decision) ==
    [type |-> "dict", error |-> FALSE, raw |-> "absent",
     final_score |-> final_score, decision |-> decision]

PanelResponse == [kind |-> "json", payload |-> PanelDict(NumTenths(74), "recommend")]

\* the texts generate_comparative_analysis hands back
ComparativeTexts == {"narrative", "failure_placeholder"}

\* the round types a practice run may be asked for
PracticeRoundTypes == AgentKeys \cup {"Committee", "NoSuchRole"}

(***************************************************************************)
(* Bounds                                                                  *)
(***************************************************************************)
\* interviewHistory entries already persisted when the run starts
MaxPriorHistory == 1
\* end_interview events handled on one connection
MaxEndInterviews == 1

\* the record persisted by k earlier completed interviews
RECURSIVE PriorData(_)
PriorData(k) ==
    IF k = 0 THEN DefaultProfile
    ELSE SaveUser(AddInterviewSummary(
             AddWeaknessTags(PriorData(k - 1), <<"w_sql">>),
             [final_score |-> 600, weighted_score |-> 612, decision |-> "waitlist_observe",
              rounds_count |-> 4]))

\* records written by an earlier version of the program: a record with one
\* interview in it, of which any top-level keys and any keys of statistics are
\* missing, and which may hold a key of its own at either level
OlderRecords ==
    LET full == [PriorData(1) EXCEPT !.statistics.recent_trend = "stable",
                                     !.statistics.most_common_strength = "s_structure"]
    IN  {[key \in keys \cup legacy |->
             IF key = "legacy_field" THEN "stored"
             ELSE IF key = "statistics"
             THEN [k \in stats \cup legacy |->
                      IF k = "legacy_field" THEN "stored" ELSE full.statistics[k]]
             ELSE full[key]] :
            keys \in SUBSET DOMAIN DefaultProfile,
            stats \in SUBSET DOMAIN DefaultStatistics,
            legacy \in {{}, {"legacy_field"}}}

\* the RoundResults a weighed session may hold, in the order a run over the
\* roles HR, Technical and CultureFit appends them
WeighedRoles ==
    <<MainRole("HR"), FollowUpRole("HR"), MainRole("Technical"), MainRole("CultureFit")>>

RECURSIVE AddRounds(_, _, _)
\* add_round for the chosen RoundResults from the n-th on
AddRounds(session, c, n) ==
    IF n > Len(WeighedRoles) THEN session
    ELSE IF c[n] = 0 THEN AddRounds(session, c, n + 1)
    ELSE AddRounds(AddRound(session, WeighedRoles[n],
                            [score |-> c[n], feedback |-> "model_feedback",
                             weakness_tags |-> <<>>, strength_tags |-> <<>>],
                            WeighedRoles[n].suffix # ""),
                   c, n + 1)

\* the clients that hold a UserMemory object of the one candidate id (two
\* request.sid values with the same user_id)
Sids == {1, 2}

\* the length of the history up to which a client finishes a session
MaxSessions == 2

\* the user_id values the clients send ('guest' is the default of
\* handle_start_interview)
UserIds == {"guest", "alice"}

\* the number of save() calls in a row
MaxSaves == 2

(***************************************************************************)
(* State                                                                   *)
(***************************************************************************)
VARIABLES
    harness,        \* the entry point this run drives: "full" (run_full_interview),
                    \* "practice" (run_quick_practice), "web" (web/app.py) or
                    \* "composite" (_calculate_weighted_score on its own),
                    \* "candidate" (UserMemory objects of one candidate id),
                    \* "clients" (two web clients), "generation" (one
                    \* generate_json call of LLMClient), "record" (UserMemory
                    \* objects loaded from a record of an earlier version) or
                    \* "statistics" (the sessions of one candidate, one after
                    \* the other, each by its final score) or "threads" (one
                    \* web connection whose events two threads handle)
    user_file,      \* storage/users/<candidate id>.json
    session_files,  \* storage/sessions/<candidate id>_*.json, in the order written
    pc,             \* engine: the state of the run
    round_index,    \* engine: position in round_order (1-based; 0 before the first)
    user_memory,    \* engine: UserMemory.data
    session,        \* engine: SessionMemory
    question,       \* engine: the question awaiting its answer
    result,         \* engine: the result dict of the round under way
    round_results,  \* engine: round_results of run_full_interview
    returned,       \* engine: what the entry point returned
    connection,     \* web: "connected", "interviewing" (start_interview handled),
                    \* "disconnected"
    active,         \* web: active_sessions[sid]
    events,         \* the lifecycle callbacks / socket events fired, in order
    evaluated,      \* the last evaluate_answer call: what generate_json handed it
                    \* and what it returned
    calls,          \* how often the run has called the operations counted in it
    panel_result,   \* engine: what generate_json handed generate_final_evaluation
    weighed,        \* composite: a session, the same RoundResults in another
                    \* order, and the weighted score of each once computed
    memories,       \* candidate: the UserMemory object of each client, with the
                    \* number of save() calls since it was loaded or last changed
    active_sessions,\* clients: active_sessions[sid] of each client with its
                    \* user_id, the events sent to its room, its counted calls and
                    \* the requests it has sent
    storage,        \* clients: storage/users/<user_id>.json and
                    \* storage/sessions/<user_id>_*.json of each user_id
    llm,            \* generation: one generate_json call of LLMClient: where
                    \* it stands in _retry_with_backoff, the outcome of each
                    \* invocation, the waits, the text chat returned and what
                    \* _parse_json_response made of it
    handlers        \* threads: where each of two threads of the server stands
                    \* in handle_submit_answer for the one connection: "idle"
                    \* (not in the handler), "passed" (past the test of
                    \* waiting_for_answer, before it is reset) or "evaluating"
                    \* (flag reset, current_round read into its round_key)

vars == <<harness, follow_up_config, callbacks, user_file, session_files, pc, round_index, user_memory, session,
          question, result, round_results, returned, connection, active, events,
          evaluated, calls, panel_result, weighed, memories, active_sessions, storage,
          llm, handlers>>

setupVars == <<harness, follow_up_config, callbacks>>
engineVars == <<pc, round_index, user_memory, session, question, result,
                round_results, returned>>
webVars == <<connection, active>>
unitVars == <<weighed, memories, active_sessions, storage, llm, handlers>>

\* the files before any client has connected: alice has an earlier record
StoredAtFirst ==
    [user_id \in UserIds |->
        [user_file |-> IF user_id = "alice" THEN FileOf(PriorData(1)) ELSE NoFile,
         session_files |-> <<>>]]

NoCalls ==
    [panel |-> 0, set_final |-> 0, session_save |-> 0, user_save |-> 0,
     history_append |-> 0]

\* the state before the entry point is called: the settings in effect and the
\* candidate's record as files allow it
Started(entry, settings, files) ==
    /\ harness = entry
    /\ follow_up_config = settings.config
    /\ callbacks = settings.callbacks
    /\ memories = [sid \in Sids |-> NoneValue]
    /\ active_sessions = [sid \in Sids |->
                              [sd |-> NoneValue, user_id |-> "none", events |-> <<>>,
                               calls |-> NoCalls, requests |-> <<>>]]
    /\ storage = StoredAtFirst
    /\ handlers = [thread \in Sids |-> [pc |-> "idle", round_key |-> "none"]]
    /\ llm = IF entry = "generation"
             THEN [set |-> TRUE, pc |-> "idle", attempt |-> 0, outcomes |-> <<>>,
                   waits |-> <<>>, last_error |-> NoneValue]
             ELSE NoneValue
    /\ user_file \in files
    /\ IF harness = "composite"
       THEN \E c \in {w \in [DOMAIN WeighedRoles -> {0, 4, 8, 9}] : w[2] # 0 => w[1] # 0} :
               \E reordered \in Orderings(Range(AddRounds(NewSession, c, 1).rounds)) :
                  weighed = [set |-> FALSE, session |-> AddRounds(NewSession, c, 1),
                             reordered |-> [NewSession EXCEPT !.rounds = reordered],
                             composite |-> 0, recomposite |-> 0]
       ELSE weighed = NoneValue
    /\ session_files = <<>>
    /\ pc = "NotStarted"
    /\ round_index = 0
    /\ user_memory = NoneValue
    /\ session = NoneValue
    /\ question = NoneValue
    /\ result = NoneValue
    /\ round_results = <<>>
    /\ returned = NoneValue
    /\ connection = "connected"
    /\ active = NoneValue
    /\ events = <<>>
    /\ evaluated = NoneValue
    /\ panel_result = NoneValue
    /\ calls = NoCalls

\* the program as shipped: the settings of config.py, callbacks that display
Init ==
    \E entry \in {"full", "practice", "web", "composite", "candidate", "clients",
                  "generation", "statistics"} :
        Started(entry, [config |-> ShippedConfig, callbacks |-> "observing"],
                IF entry \in {"composite", "generation", "statistics"} THEN {NoFile}
                ELSE {NoFile, FileOf(PriorData(MaxPriorHistory))})

\* the engine's entry points under the settings it may be run under: the
\* shipped ones with the callbacks left out, displaying or rewriting, and those
\* that differ from the shipped ones in one entry of the configuration (an
\* earlier record only under the shipped ones)
EngineInit ==
    \E entry \in {"full", "practice"} :
        \E settings \in
               {[config |-> ShippedConfig, callbacks |-> c] :
                   c \in {"none", "observing", "rewriting"}}
               \cup {[config |-> c, callbacks |-> "observing"] :
                        c \in {[ShippedConfig EXCEPT !.enabled = FALSE],
                               [ShippedConfig EXCEPT !.max_follow_ups = 0],
                               [ShippedConfig EXCEPT !.max_follow_ups = 2],
                               [ShippedConfig EXCEPT !.roles = @ \ {"HR"}]}} :
            Started(entry, settings,
                    IF settings = [config |-> ShippedConfig, callbacks |-> "observing"]
                    THEN {NoFile} \cup {FileOf(PriorData(k)) : k \in 1..MaxPriorHistory}
                    ELSE {NoFile})

(***************************************************************************)
(* core/workflow.py : the engine                                           *)
(***************************************************************************)
\* agent.generate_question(user_context, session_context): the question and the
\* session context it was generated from
GenerateQuestion(key, sess) ==
    [set |-> TRUE, role |-> key, follow_up |-> FALSE,
     context |-> GetContextForNextRound(sess)]

\* agent.generate_follow_up(original_question, answer, evaluation, reason)
GenerateFollowUp(key, evaluation, reason) ==
    [set |-> TRUE, role |-> key, follow_up |-> TRUE,
     context |-> <<[role |-> key, score |-> evaluation.score]>>]

RoundStartEvent(key) == [event |-> "round_start", role |-> key]
QuestionEvent(q) == [event |-> "question", role |-> q.role, follow_up |-> q.follow_up]

\* the answers given: every kind in the single-round runs, a long and a brief one
\* in the runs over all the rounds
AnswerChoices ==
    IF harness = "practice" \/ (harness = "web" /\ active.set /\ active.mode = "practice")
    THEN {LongAnswer, BriefAnswer, [kws |-> {2, 3}, len |-> 120], [kws |-> {4}, len |-> 10]}
    ELSE {LongAnswer, BriefAnswer}

\* the evaluation responses of the harness. A full interview of the engine is
\* driven with three, one over the web transport with two. A single-round
\* practice run of the engine under the shipped settings is driven with every
\* kind of score and tag list (raw scores in tenths), with text around the JSON
\* and with responses that carry the error marker themselves next to other
\* fields, and with an evaluation of score 5 whose feedback is worded as the
\* fallback's; under other settings, and over the web transport, with the
\* shorter list
EvalResponses ==
    IF harness = "full" THEN {HighResponse, GarbageResponse, ArrayResponse}
    ELSE IF harness = "practice" /\ follow_up_config = ShippedConfig /\ callbacks = "observing"
    THEN {[kind |-> "json", payload |-> EvalDict(sc, tl, tl)] :
             sc \in {[t |-> "absent", v |-> 0], [t |-> "str", v |-> 0], [t |-> "null", v |-> 0],
                     [t |-> "bool", v |-> 10], [t |-> "nonfinite", v |-> 0]}
                    \cup {NumTenths(v) : v \in {0 - 15, 0 - 5, 0, 9, 59, 60, 79, 100, 109, 125}},
             tl \in {NoList, [t |-> "null", items |-> <<>>], ListOf(<<"w_sql">>),
                     ListOf(<<UnknownTag, "w_structure", "s_structure">>)}}
         \cup {[kind |-> "embedded", payload |-> EvalDict(NumTenths(79), NoList, NoList)],
               [kind |-> "embedded", payload |-> NotADict("num")],
               [kind |-> "json",
                payload |-> [EvalDict(NumTenths(50), NoList, NoList)
                                EXCEPT !.feedback = "generic_failure_text"]],
               HighResponse, LowResponse, GarbageResponse, FailedResponse, ArrayResponse,
               NumberResponse}
         \cup {[kind |-> "json",
                payload |-> [type |-> "dict", error |-> TRUE, raw |-> raw, score |-> score,
                             weakness_tags |-> tags, strength_tags |-> tags,
                             feedback |-> "model_feedback",
                             key_points |-> <<"model_key_point">>]] :
                  raw \in {"absent", "model_payload"},
                  score \in {NumTenths(90), [t |-> "nonfinite", v |-> 0]},
                  tags \in {ListOf(<<"w_sql">>), [t |-> "null", items |-> <<>>]}}
    ELSE IF harness = "practice" \/ (active.set /\ active.mode = "practice")
    THEN {StrongResponse, HighResponse, LowResponse, FailedResponse, GarbageResponse,
          NumberResponse}
    ELSE {StrongResponse, NumberResponse}

\* `if on_x: on_x(...)`: the callbacks that fire join those fired so far
Fired(fired) == IF callbacks = "none" THEN events ELSE events \o fired

\* the evaluation dict as on_evaluation leaves it (lines 111-112 and 212-213)
OnEvaluation(evaluation) ==
    IF callbacks = "rewriting" THEN [evaluation EXCEPT !.score = 0] ELSE evaluation

\* run_single_round, lines 87-102: the main question is generated and asked
\* (fired: the callbacks fired before on_question)
BeginRound(key, sess, fired) ==
    /\ question' = GenerateQuestion(key, sess)
    /\ events' = Fired(fired \o <<QuestionEvent(GenerateQuestion(key, sess))>>)
    /\ result' = NoneValue
    /\ pc' = "RoundActive"

\* an exception leaves the entry point: the run is over and nothing else is written
Abort ==
    /\ pc' = "Aborted"
    /\ UNCHANGED <<round_index, user_memory, session, question, result, round_results,
                   returned, user_file, session_files, events, calls>>

CancelAnswerSavingSession ==
    /\ pc = "RoundActive"
    /\ pc' = "Cancelled"
    /\ session_files' = Append(session_files, SessionToDict(session))
    /\ UNCHANGED <<round_index, user_memory, session, question, result, round_results,
                   returned, user_file, events, calls, evaluated,
                   setupVars, unitVars, webVars, panel_result>>

\* get_user_answer(question) raises while the main question (line 102) or the
\* follow-up question (line 195) awaits its answer: the exception passes through
\* run_single_round and the entry point, which catch nothing (the command line
\* reports the interruption, main.py lines 281-282)
CancelAnswer ==
    /\ pc = "RoundActive"
    /\ pc' = "Cancelled"
    /\ UNCHANGED <<round_index, user_memory, session, question, result, round_results,
                   returned, user_file, session_files, events, calls, evaluated,
                   setupVars, unitVars, webVars, panel_result>>

\* run_full_interview, lines 333-353: memories loaded, round 1 started
FullStart ==
    /\ harness = "full"
    /\ pc = "NotStarted"
    /\ user_memory' = LoadUser(user_file)
    /\ session' = NewSession
    /\ round_results' = <<>>
    /\ round_index' = 1
    /\ BeginRound(RoundOrder[1], NewSession, <<RoundStartEvent(RoundOrder[1])>>)
    /\ UNCHANGED <<returned, user_file, session_files, calls, evaluated>>
    /\ UNCHANGED <<setupVars, unitVars, panel_result, webVars>>

\* a run_quick_practice that writes the candidate's record when it loads it
PracticeStartWritingRecord(round_type) ==
    /\ harness = "practice"
    /\ pc = "NotStarted"
    /\ IF round_type \notin AgentKeys
       THEN /\ pc' = "Rejected"
            /\ UNCHANGED <<round_index, user_memory, session, question, result, events,
                           user_file>>
       ELSE /\ user_memory' = LoadUser(user_file)
            /\ user_file' = FileOf(LoadUser(user_file))
            /\ session' = NewSession
            /\ round_index' = 0
            /\ BeginRound(round_type, NewSession, <<>>)
    /\ UNCHANGED <<round_results, returned, session_files, calls, evaluated>>
    /\ UNCHANGED <<setupVars, unitVars, panel_result, webVars>>

\* run_quick_practice, lines 409-422
PracticeStart(round_type) ==
    /\ harness = "practice"
    /\ pc = "NotStarted"
    /\ IF round_type \notin AgentKeys
       THEN /\ pc' = "Rejected"
            /\ UNCHANGED <<round_index, user_memory, session, question, result, events>>
       ELSE /\ user_memory' = LoadUser(user_file)
            /\ session' = NewSession
            /\ round_index' = 0
            /\ BeginRound(round_type, NewSession, <<>>)
    /\ UNCHANGED <<round_results, returned, user_file, session_files, calls, evaluated>>
    /\ UNCHANGED <<setupVars, unitVars, panel_result, webVars>>

\* the follow-up joins the result, final_score left at the main score
WithFollowUpKeepingMain(res, follow_up_eval) ==
    [res EXCEPT !.questions = Append(@, [score |-> follow_up_eval.score,
                                         is_follow_up |-> TRUE])]

\* lines 158-161: the follow-up joins the result and its score becomes final_score
WithFollowUp(res, follow_up_eval) ==
    [res EXCEPT !.questions = Append(@, [score |-> follow_up_eval.score,
                                         is_follow_up |-> TRUE]),
                !.final_score = follow_up_eval.score]

\* a test that leaves the role's follow_up_enabled flag out
WantsFollowUpWhateverRole(key, answer, evaluation) ==
    /\ ShouldFollowUp(answer, evaluation).follow
    /\ follow_up_config.enabled

\* lines 139-143: whether run_single_round goes into _handle_follow_up
WantsFollowUp(key, answer, evaluation) ==
    /\ key \in follow_up_config.roles
    /\ ShouldFollowUp(answer, evaluation).follow
    /\ follow_up_config.enabled

\* the record of one evaluate_answer call (what it returned) and of the
\* should_follow_up call made with its outcome as on_evaluation left it (asked:
\* whether the caller makes that call)
Evaluated(answer, response, asked) ==
    [set |-> TRUE, result |-> GenerateJson(response),
     evaluation |-> EvaluateAnswer(response),
     answer |-> answer,
     decision |-> IF asked /\ ~EvaluateAnswer(response).raised
                  THEN [set |-> TRUE,
                        value |-> ShouldFollowUp(answer,
                                      OnEvaluation(EvaluateAnswer(response)))]
                  ELSE NoneValue]

\* run_single_round, lines 102-156 and _handle_follow_up, lines 180-195: the main
\* answer arrives, is evaluated and recorded; a follow-up question may be asked
AnswerMain(answer, response) ==
    /\ harness \in {"full", "practice"}
    /\ pc = "RoundActive"
    /\ ~question.follow_up
    /\ LET key == question.role
           returned_eval == EvaluateAnswer(response)
           evaluation == OnEvaluation(returned_eval)
       IN  IF returned_eval.raised THEN Abort
           ELSE /\ session' = AddRound(session, MainRole(key), evaluation, FALSE)
                /\ result' = [set |-> TRUE, round |-> key,
                              questions |-> <<[score |-> evaluation.score,
                                               is_follow_up |-> FALSE]>>,
                              final_score |-> evaluation.score]
                /\ IF WantsFollowUp(key, answer, evaluation)
                   THEN /\ question' = GenerateFollowUp(key, evaluation,
                                            ShouldFollowUp(answer, evaluation).reason)
                        /\ events' = Fired(<<[event |-> "evaluation"]>>
                                           \o (IF harness = "full"
                                               THEN <<[event |-> "follow_up"]>>
                                               ELSE <<>>)
                                           \o <<QuestionEvent(question')>>)
                        /\ pc' = "RoundActive"
                   ELSE /\ question' = NoneValue
                        /\ events' = Fired(<<[event |-> "evaluation"]>>)
                        /\ pc' = "RoundComplete"
                /\ UNCHANGED <<round_index, user_memory, round_results, returned,
                               user_file, session_files, calls>>
    /\ evaluated' = Evaluated(answer, response, question.role \in follow_up_config.roles)
    /\ UNCHANGED <<setupVars, unitVars, panel_result, webVars>>

\* _handle_follow_up, lines 195-235 and run_single_round, lines 158-163
AnswerFollowUp(answer, response) ==
    /\ harness \in {"full", "practice"}
    /\ pc = "RoundActive"
    /\ question.follow_up
    /\ LET key == question.role
           returned_eval == EvaluateAnswer(response)
           follow_up_eval == OnEvaluation(returned_eval)
       IN  IF returned_eval.raised THEN Abort
           ELSE /\ session' = AddRound(session, FollowUpRole(key), follow_up_eval, TRUE)
                /\ result' = WithFollowUp(result, follow_up_eval)
                /\ question' = NoneValue
                /\ events' = Fired(<<[event |-> "evaluation"]>>)
                /\ pc' = "RoundComplete"
                /\ UNCHANGED <<round_index, user_memory, round_results, returned,
                               user_file, session_files, calls>>
    /\ evaluated' = Evaluated(answer, response, FALSE)
    /\ UNCHANGED <<setupVars, unitVars, panel_result, webVars>>

\* the loop leaving one role early
HasMoreRoundsOffByOne(index) == index < Len(RoundOrder) - 1

\* the loop test of run_full_interview: another role follows the one at index
HasMoreRounds(index) == index < Len(RoundOrder)

\* run_full_interview, lines 355-362 (and the next round's 340-353), or the return
\* of run_quick_practice
RoundComplete ==
    /\ harness \in {"full", "practice"}
    /\ pc = "RoundComplete"
    /\ IF harness = "practice"
       THEN /\ pc' = "Finished"
            /\ returned' = result
            /\ UNCHANGED <<round_index, round_results, question, result, events>>
       ELSE /\ round_results' = Append(round_results, result)
            /\ returned' = returned
            /\ IF HasMoreRounds(round_index)
               THEN /\ round_index' = round_index + 1
                    /\ BeginRound(RoundOrder[round_index + 1], session,
                                  <<[event |-> "round_complete"],
                                    RoundStartEvent(RoundOrder[round_index + 1])>>)
               ELSE /\ pc' = "PanelSynthesis"
                    /\ events' = Fired(<<[event |-> "round_complete"],
                                         RoundStartEvent("Committee")>>)
                    /\ UNCHANGED <<round_index, question, result>>
    /\ UNCHANGED <<setupVars, unitVars, panel_result, webVars, user_memory, session, user_file, session_files, calls,
                   evaluated>>

\* run_full_interview, lines 364-386: panel synthesis, the candidate's record
\* updated and saved, the session saved
PanelAndFinish(response, comparative) ==
    /\ harness = "full"
    /\ pc = "PanelSynthesis"
    /\ LET final_eval == RunCommitteeEvaluation(response, comparative, user_memory, session)
       IN  IF final_eval.raised
           THEN /\ pc' = "Aborted"
                /\ calls' = [calls EXCEPT !.panel = @ + 1]
                /\ UNCHANGED <<round_index, user_memory, session, question, result,
                               round_results, returned, user_file, session_files, events>>
           ELSE \E weak \in GetAllWeaknessTags(session), strong \in GetAllStrengthTags(session) :
                LET sess == SetFinalEvaluation(session, final_eval)
                    data == SaveUser(AddInterviewSummary(
                                AddStrengthTags(AddWeaknessTags(user_memory, weak), strong),
                                [final_score |-> final_eval.final_score,
                                 weighted_score |-> CalculateWeightedScore(sess),
                                 decision |-> final_eval.decision,
                                 rounds_count |-> Len(sess.rounds)]))
                IN  /\ session' = sess
                    /\ user_memory' = data
                    /\ user_file' = FileOf(data)
                    /\ session_files' = Append(session_files, SessionToDict(sess))
                    /\ returned' = [set |-> TRUE, session_path |-> Len(session_files) + 1]
                    /\ events' = Fired(<<[event |-> "final_evaluation"]>>)
                    /\ calls' = [calls EXCEPT !.panel = @ + 1, !.set_final = @ + 1,
                                              !.session_save = @ + 1, !.user_save = @ + 1,
                                              !.history_append = @ + 1]
                    /\ pc' = "Finished"
                    /\ UNCHANGED <<round_index, question, result, round_results>>
    /\ panel_result' = [set |-> TRUE, result |-> GenerateJson(response)]
    /\ UNCHANGED <<setupVars, unitVars, webVars, evaluated>>

EngineNext ==
    \/ FullStart
    \/ \E round_type \in PracticeRoundTypes : PracticeStart(round_type)
    \/ \E answer \in AnswerChoices, response \in EvalResponses : AnswerMain(answer, response)
    \/ \E answer \in {BriefAnswer}, response \in EvalResponses :
          AnswerFollowUp(answer, response)
    \/ RoundComplete
    \/ \E response \in
              {PanelResponse,
               [kind |-> "fenced", payload |-> PanelDict(NumTenths(130), "absent")],
               [kind |-> "json", payload |-> PanelDict([t |-> "str", v |-> 0], "garbled")],
               GarbageResponse, ArrayResponse},
          comparative \in ComparativeTexts :
          PanelAndFinish(response, comparative)
    \/ CancelAnswer

(***************************************************************************)
(* web/app.py : the socket.io transport, one connection (sid).             *)
(* The model follows one start_interview per connection.                   *)
(***************************************************************************)
\* active_sessions[request.sid] = {...} in handle_start_interview
NewSessionData(mode, practice_round) ==
    [set |-> TRUE,
     user_memory |-> LoadUser(user_file),
     session |-> NewSession,
     mode |-> mode,
     practice_round |-> practice_round,
     current_round_index |-> 0,
     current_round |-> "none",
     current_question |-> NoneValue,
     waiting_for_answer |-> FALSE,
     round_results |-> <<>>,
     follow_up_count |-> 0,
     is_follow_up |-> FALSE]

\* start_round(sid, round_key)
StartRound(o, round_key) ==
    LET sd1 == [o.sd EXCEPT !.current_round = round_key]
        evs1 == Append(o.events, RoundStartEvent(round_key))
    IN  IF round_key \in AgentKeys
        THEN [o EXCEPT !.sd = [sd1 EXCEPT !.current_question =
                                              GenerateQuestion(round_key, sd1.session),
                                          !.waiting_for_answer = TRUE],
                       !.events = Append(evs1,
                            QuestionEvent(GenerateQuestion(round_key, sd1.session)))]
        ELSE [o EXCEPT !.sd = sd1, !.events = evs1]

\* finish_interview(sid); weak and strong are the tag lists the session hands over.
\* avg_score is kept in hundredths (the code keeps the quotient unrounded)
FinishInterview(o, weak, strong) ==
    LET results == o.sd.round_results
        \* [r.get('score', 0) for r in ... if r.get('score')]
        scores == SelectSeq([i \in DOMAIN results |-> results[i].score], LAMBDA x : x # 0)
        data == SaveUser(AddInterviewSummary(
                    AddStrengthTags(AddWeaknessTags(o.sd.user_memory, weak), strong),
                    [final_score |-> IF scores = <<>> THEN 0
                                     ELSE RoundDiv(SumSeq(scores), Len(scores)),
                     rounds_count |-> Len(o.sd.round_results)]))
    IN  CHOOSE finished \in
            {[sd |-> [o.sd EXCEPT !.user_memory = saved],
              user_file |-> FileOf(saved),
              session_files |-> Append(o.session_files, SessionToDict(o.sd.session)),
              events |-> Append(o.events, [event |-> "interview_complete"]),
              calls |-> [o.calls EXCEPT !.history_append = @ + 1, !.user_save = @ + 1,
                                        !.session_save = @ + 1]] :
                saved \in {data}} : TRUE

\* run_committee_evaluation(sid) of web/app.py
WebCommitteeEvaluation(o, response, comparative, weak, strong) ==
    LET final_eval == RunCommitteeEvaluation(response, comparative,
                                             o.sd.user_memory, o.sd.session)
        evs1 == Append(o.events, [event |-> "committee_start"])
        cs1 == [o.calls EXCEPT !.panel = @ + 1]
    IN  IF final_eval.raised
        THEN FinishInterview([o EXCEPT !.events = Append(evs1, [event |-> "error"]),
                                       !.calls = cs1], weak, strong)
        ELSE FinishInterview(
                 [o EXCEPT !.sd.session = SetFinalEvaluation(@, final_eval),
                           !.events = Append(evs1, [event |-> "final_evaluation"]),
                           !.calls = [cs1 EXCEPT !.set_final = @ + 1]], weak, strong)

\* proceed_to_next_round(sid)
ProceedToNextRound(o, response, comparative, weak, strong) ==
    LET sd1 == [o.sd EXCEPT !.current_round_index = @ + 1,
                            !.is_follow_up = FALSE,
                            !.follow_up_count = 0]
        o1 == [o EXCEPT !.sd = sd1]
    IN  IF sd1.mode = "practice" THEN FinishInterview(o1, weak, strong)
        ELSE IF sd1.current_round_index < Len(RoundOrder)
        THEN StartRound(o1, RoundOrder[sd1.current_round_index + 1])
        ELSE WebCommitteeEvaluation(o1, response, comparative, weak, strong)

\* the cap compared with <= : one follow-up more than max_follow_ups is asked
WebWantsFollowUpOffByOne(sd, answer, evaluation) ==
    /\ ShouldFollowUp(answer, evaluation).follow
    /\ sd.follow_up_count <= follow_up_config.max_follow_ups

\* handle_submit_answer, lines 364-369: a follow-up is asked
WebWantsFollowUp(sd, answer, evaluation) ==
    /\ ShouldFollowUp(answer, evaluation).follow
    /\ sd.follow_up_count < follow_up_config.max_follow_ups

\* handle_submit_answer past its guard, round_key being the current_round it
\* read at line 309: follow_up_q is whether generate_follow_up handed back a
\* non-empty text
SubmitAnswerOf(o, round_key, answer, response, follow_up_q, panel, comparative, weak, strong) ==
    LET sd1 == [o.sd EXCEPT !.waiting_for_answer = FALSE]
        first == EvaluateAnswer(response)
    IN  IF first.raised
        THEN [o EXCEPT !.sd = sd1, !.events = Append(@, [event |-> "error"])]
        ELSE LET \* the evaluation goes through _normalize_evaluation_result once
                 \* more (line 326)
                 evaluation == NormalizeEvaluationResult(
                                   [type |-> "dict", error |-> FALSE, raw |-> "absent",
                                    score |-> NumTenths(10 * first.score),
                                    weakness_tags |-> ListOf(first.weakness_tags),
                                    strength_tags |-> ListOf(first.strength_tags),
                                    feedback |-> first.feedback])
                 sd2 == [sd1 EXCEPT
                            !.session = AddRound(@, MainRole(round_key), evaluation,
                                                 sd1.is_follow_up),
                            !.round_results = Append(@, [role |-> round_key,
                                                         score |-> evaluation.score])]
                 o2 == [o EXCEPT !.sd = sd2]
             IN  IF WebWantsFollowUp(sd2, answer, evaluation) /\ follow_up_q
                 THEN [o2 EXCEPT
                          !.sd = [sd2 EXCEPT
                                     !.current_question =
                                         GenerateFollowUp(round_key, evaluation,
                                             ShouldFollowUp(answer, evaluation).reason),
                                     !.waiting_for_answer = TRUE,
                                     !.is_follow_up = TRUE,
                                     !.follow_up_count = @ + 1],
                          !.events = Append(@, [event |-> "follow_up"])]
                 ELSE ProceedToNextRound(o2, panel, comparative, weak, strong)

\* handle_submit_answer past its guard, run without another thread in between:
\* round_key is current_round as the handler finds it
SubmitAnswer(o, answer, response, follow_up_q, panel, comparative, weak, strong) ==
    SubmitAnswerOf(o, o.sd.current_round, answer, response, follow_up_q, panel,
                   comparative, weak, strong)

\* a step of a handler: the session data, the files and the counters it leaves
\* (here those it finds)
Here ==
    [sd |-> active, user_file |-> user_file, session_files |-> session_files,
     events |-> events, calls |-> calls]

Leave(o) ==
    \E outcome \in {o} :
        /\ active' = outcome.sd
        /\ user_file' = outcome.user_file
        /\ session_files' = outcome.session_files
        /\ events' = outcome.events
        /\ calls' = outcome.calls

\* whether this answer's handling runs through to finish_interview: the tag lists
\* and the panel's texts are read only then
ReachesFinish(sd, answer, response, follow_up_q) ==
    LET first == EvaluateAnswer(response)
    IN  /\ ~first.raised
        /\ ~(WebWantsFollowUp(sd, answer, first) /\ follow_up_q)
        /\ \/ sd.mode = "practice"
           \/ sd.current_round_index + 1 >= Len(RoundOrder)

\* the session's tag lists once the evaluation of response has been recorded
TagOrders(sd, answer, response, follow_up_q, field) ==
    IF ReachesFinish(sd, answer, response, follow_up_q)
    THEN Orderings(TagSetOf(sd.session.rounds, field)
                   \cup Range(EvaluateAnswer(response)[field]))
    ELSE {<<>>}

\* the panel texts that can be read while this answer is handled
PanelChoices(sd, answer, response, follow_up_q) ==
    IF ReachesFinish(sd, answer, response, follow_up_q) /\ sd.mode # "practice"
    THEN {PanelResponse, GarbageResponse, ArrayResponse}
         \X (IF sd.user_memory.interview_history # <<>>
             THEN ComparativeTexts ELSE {"narrative"})
    ELSE {<<GarbageResponse, "narrative">>}

\* whether generate_follow_up hands back a non-empty text (the empty text is
\* explored in practice rounds)
FollowUpTexts ==
    IF active.set /\ active.mode = "practice" THEN BOOLEAN ELSE {TRUE}

\* handle_start_interview
WebStartInterview(mode, practice_round) ==
    /\ harness = "web" \/ (harness = "threads" /\ mode = "full")
    /\ connection = "connected"
    /\ connection' = "interviewing"
    /\ LET o == [Here EXCEPT !.sd = NewSessionData(mode, practice_round)]
       IN  IF mode = "practice" /\ practice_round # "none"
           THEN Leave(StartRound(o, practice_round))
           ELSE Leave(StartRound(o, RoundOrder[1]))
    /\ UNCHANGED <<setupVars, unitVars, panel_result, engineVars, evaluated>>

\* handle_submit_answer
WebSubmitAnswer(answer, response, follow_up_q) ==
    /\ harness = "web"
    /\ active.set
    /\ active.waiting_for_answer
    /\ \E texts \in PanelChoices(active, answer, response, follow_up_q),
          weak \in TagOrders(active, answer, response, follow_up_q, "weakness_tags"),
          strong \in TagOrders(active, answer, response, follow_up_q, "strength_tags") :
          Leave(SubmitAnswer(Here, answer, response, follow_up_q, texts[1], texts[2],
                             weak, strong))
    /\ evaluated' = Evaluated(answer, response, TRUE)
    /\ UNCHANGED <<setupVars, unitVars, panel_result, engineVars, connection>>

\* handle_skip_question: the fixed text it submits has 12 characters, no keyword
WebSkipQuestion(response, follow_up_q) ==
    WebSubmitAnswer([kws |-> {}, len |-> 12], response, follow_up_q)

\* handle_end_interview
WebEndInterview ==
    /\ harness = "web"
    /\ connection # "disconnected"
    /\ Len(SelectSeq(events, LAMBDA e : e.event = "interview_ended")) < MaxEndInterviews
    /\ IF active.set
       THEN \E weak \in GetAllWeaknessTags(active.session),
               strong \in GetAllStrengthTags(active.session) :
               LET o == FinishInterview(Here, weak, strong)
               IN  Leave([o EXCEPT !.events = Append(@, [event |-> "interview_ended"])])
       ELSE /\ events' = Append(events, [event |-> "interview_ended"])
            /\ UNCHANGED <<active, user_file, session_files, calls>>
    /\ UNCHANGED <<setupVars, unitVars, panel_result, engineVars, connection, evaluated>>

\* handle_disconnect
WebDisconnect ==
    /\ harness = "web"
    /\ connection # "disconnected"
    /\ connection' = "disconnected"
    /\ active' = NoneValue
    /\ UNCHANGED <<setupVars, unitVars, panel_result, engineVars, user_file, session_files, events, calls,
                   evaluated>>

\* handle_submit_answer run by a thread of the server (async_mode='threading',
\* no lock), lines 301-304: active_sessions.get(sid) and the test of
\* waiting_for_answer, passed
PassGuard(thread) ==
    /\ harness = "threads"
    /\ handlers[thread].pc = "idle"
    /\ active.set
    /\ active.waiting_for_answer
    /\ handlers' = [handlers EXCEPT ![thread].pc = "passed"]
    /\ UNCHANGED <<setupVars, weighed, memories, active_sessions, storage, llm,
                   panel_result, engineVars, webVars, user_file, session_files, events,
                   calls, evaluated>>

\* the same thread, lines 306-310: waiting_for_answer reset, current_round read
\* into the handler's round_key
ResetAndRead(thread) ==
    /\ harness = "threads"
    /\ handlers[thread].pc = "passed"
    /\ active' = [active EXCEPT !.waiting_for_answer = FALSE]
    /\ handlers' = [handlers EXCEPT ![thread] =
                        [pc |-> "evaluating", round_key |-> active.current_round]]
    /\ UNCHANGED <<setupVars, weighed, memories, active_sessions, storage, llm,
                   panel_result, engineVars, connection, user_file, session_files, events,
                   calls, evaluated>>

\* the same thread, lines 312-400: the answer evaluated and recorded under the
\* handler's round_key, a follow-up asked or the next round entered
EvaluateAndRecord(thread, answer, response) ==
    /\ harness = "threads"
    /\ handlers[thread].pc = "evaluating"
    /\ \E texts \in PanelChoices(active, answer, response, TRUE),
          weak \in TagOrders(active, answer, response, TRUE, "weakness_tags"),
          strong \in TagOrders(active, answer, response, TRUE, "strength_tags") :
          Leave(SubmitAnswerOf(Here, handlers[thread].round_key, answer, response, TRUE,
                               texts[1], texts[2], weak, strong))
    /\ handlers' = [handlers EXCEPT ![thread] = [pc |-> "idle", round_key |-> "none"]]
    /\ evaluated' = Evaluated(answer, response, TRUE)
    /\ UNCHANGED <<setupVars, weighed, memories, active_sessions, storage, llm,
                   panel_result, engineVars, connection>>

WebNext ==
    \/ WebStartInterview("full", "none")
    \/ \E practice_round \in PracticeRoundTypes \cup {"none"} :
          WebStartInterview("practice", practice_round)
    \/ \E answer \in AnswerChoices, response \in EvalResponses, follow_up_q \in FollowUpTexts :
          WebSubmitAnswer(answer, response, follow_up_q)
    \/ \E response \in EvalResponses, follow_up_q \in FollowUpTexts :
          WebSkipQuestion(response, follow_up_q)
    \/ WebEndInterview
    \/ WebDisconnect

\* _calculate_weighted_score applied to the session and to its reordering
Weigh ==
    /\ harness = "composite"
    /\ ~weighed.set
    /\ weighed' = [weighed EXCEPT
                      !.set = TRUE,
                      !.composite = CalculateWeightedScore(weighed.session),
                      !.recomposite = CalculateWeightedScore(weighed.reordered)]
    /\ UNCHANGED <<setupVars, user_file, session_files, engineVars, webVars, events,
                   evaluated, calls, panel_result, memories, active_sessions, storage,
                   llm, handlers>>

\* UserMemory(user_id) of handle_start_interview: the client gets a new object
\* the longest history of final scores considered
MaxHistory == 4

\* one more session of the candidate finished, by finish_interview, lines
\* 462-477, or run_full_interview, lines 371-381: the candidate's record loaded,
\* the session's summary added, the record saved
NextSession(final_score) ==
    /\ harness = "statistics"
    /\ Len(LoadUser(user_file).interview_history) < MaxHistory
    /\ user_file' = FileOf(SaveUser(AddInterviewSummary(
                                       LoadUser(user_file),
                                       [final_score |-> final_score, rounds_count |-> 1])))
    /\ UNCHANGED <<setupVars, session_files, engineVars, webVars, events, evaluated, calls,
                   panel_result, unitVars>>

MemStart(sid) ==
    /\ harness \in {"candidate", "record"}
    /\ memories' = [memories EXCEPT ![sid] =
                       [set |-> TRUE, data |-> LoadUser(user_file), saves |-> 0]]
    /\ UNCHANGED user_file

\* finish_interview, lines 462-478: the session's tags and its summary go into
\* the client's object, which is saved
MemFinish(sid, weak, strong, final_score) ==
    /\ harness = "candidate"
    /\ memories[sid].set
    /\ Len(memories[sid].data.interview_history) < MaxSessions
    /\ LET data == SaveUser(AddInterviewSummary(
                       AddStrengthTags(AddWeaknessTags(memories[sid].data, weak), strong),
                       [final_score |-> final_score, rounds_count |-> 1]))
       IN  /\ memories' = [memories EXCEPT ![sid] =
                              [set |-> TRUE, data |-> data, saves |-> 0]]
           /\ user_file' = FileOf(data)

\* UserMemory.save() on the client's object as it is
MemSave(sid) ==
    /\ harness = "candidate"
    /\ memories[sid].set
    /\ memories[sid].saves < MaxSaves
    /\ memories' = [memories EXCEPT ![sid].data = SaveUser(@),
                                    ![sid].saves = @ + 1]
    /\ user_file' = FileOf(SaveUser(memories[sid].data))

\* what a finished session hands to add_weakness_tags, to add_strength_tags and,
\* as final_score (hundredths), to add_interview_summary: a session ended before
\* its first answer, one with a tag of each kind, and one with both weakness tags
\* in either order of list(set(...))
CandidateNext ==
    /\ \/ \E sid \in Sids : MemStart(sid)
       \/ \E sid \in Sids,
             outcome \in {<<(<<>>), (<<>>), 0>>, <<(<<"w_sql">>), (<<"s_structure">>), 700>>}
                         \cup {<<weak, (<<>>), 700>> : weak \in Orderings(WEAKNESS_TAGS)} :
             MemFinish(sid, outcome[1], outcome[2], outcome[3])
       \/ \E sid \in Sids : MemSave(sid)
    /\ UNCHANGED <<setupVars, session_files, engineVars, webVars, events, evaluated, calls,
                   panel_result, weighed, active_sessions, storage, llm, handlers>>

\* what a handler of web/app.py makes of the request of a client, o holding the
\* client's entry of active_sessions and the files of its user_id
Handle(o, request) ==
    CASE request.event = "start_interview" ->
             StartRound([o EXCEPT !.sd = [NewSessionData("practice", request.practice_round)
                                              EXCEPT !.user_memory = LoadUser(o.user_file)]],
                        request.practice_round)
      [] request.event = "submit_answer" ->
             SubmitAnswer(o, request.answer, request.response, TRUE, GarbageResponse,
                          "narrative", request.weak, request.strong)
      [] request.event = "end_interview" ->
             [FinishInterview(o, request.weak, request.strong)
                 EXCEPT !.events = Append(@, [event |-> "interview_ended"])]

\* the requests the client's session is at, in a session run alone from the
\* files as they were at first
RECURSIVE Replay(_, _, _)
Replay(requests, n, user_id) ==
    IF n = 0
    THEN [sd |-> NoneValue, user_file |-> StoredAtFirst[user_id].user_file,
          session_files |-> StoredAtFirst[user_id].session_files,
          events |-> <<>>, calls |-> NoCalls]
    ELSE CHOOSE o \in {Handle(before, requests[n]) :
                          before \in {Replay(requests, n - 1, user_id)}} : TRUE

ClientRequestOneUserFile(sid, user_id, request) ==
    LET o == Handle([sd |-> active_sessions[sid].sd,
                     user_file |-> storage["guest"].user_file,
                     session_files |-> storage[user_id].session_files,
                     events |-> active_sessions[sid].events,
                     calls |-> active_sessions[sid].calls], request)
    IN  /\ active_sessions' =
               [active_sessions EXCEPT ![sid] =
                   [sd |-> o.sd, user_id |-> user_id, events |-> o.events,
                    calls |-> o.calls, requests |-> Append(@.requests, request)]]
        /\ storage' = [storage EXCEPT !["guest"].user_file = o.user_file,
                                      ![user_id].session_files = o.session_files]

\* a handler run for request.sid = sid: it works on active_sessions[sid] and on
\* the files named after the session's user_id (memory.py lines 31 and 363)
ClientRequest(sid, user_id, request) ==
    LET o == Handle([sd |-> active_sessions[sid].sd,
                     user_file |-> storage[user_id].user_file,
                     session_files |-> storage[user_id].session_files,
                     events |-> active_sessions[sid].events,
                     calls |-> active_sessions[sid].calls], request)
    IN  /\ active_sessions' =
               [active_sessions EXCEPT ![sid] =
                   [sd |-> o.sd, user_id |-> user_id, events |-> o.events,
                    calls |-> o.calls, requests |-> Append(@.requests, request)]]
        /\ storage' = [storage EXCEPT ![user_id] =
                           [user_file |-> o.user_file, session_files |-> o.session_files]]

\* two clients of the web transport, each with one practice session of the HR
\* round under the user_id it sends: start_interview, submit_answer and
\* end_interview (once per session) in any interleaving
ClientsNext ==
    /\ harness = "clients"
    /\ \E sid \in Sids :
          LET mine == active_sessions[sid]
          IN  \/ /\ mine.requests = <<>>
                 /\ \E user_id \in UserIds :
                        ClientRequest(sid, user_id,
                                      [event |-> "start_interview", practice_round |-> "HR"])
              \/ /\ mine.sd.set
                 /\ mine.sd.waiting_for_answer
                 /\ \E answer \in {LongAnswer},
                       response \in {StrongResponse, LowResponse, NumberResponse} :
                       \E weak \in TagOrders(mine.sd, answer, response, TRUE, "weakness_tags"),
                          strong \in TagOrders(mine.sd, answer, response, TRUE, "strength_tags") :
                          ClientRequest(sid, mine.user_id,
                                        [event |-> "submit_answer", answer |-> answer,
                                         response |-> response, weak |-> weak,
                                         strong |-> strong])
              \/ /\ mine.sd.set
                 /\ \A i \in DOMAIN mine.requests : mine.requests[i].event # "end_interview"
                 /\ \E weak \in GetAllWeaknessTags(mine.sd.session),
                       strong \in GetAllStrengthTags(mine.sd.session) :
                       ClientRequest(sid, mine.user_id,
                                     [event |-> "end_interview", weak |-> weak,
                                      strong |-> strong])
    /\ UNCHANGED <<setupVars, user_file, session_files, engineVars, webVars, events,
                   evaluated, calls, panel_result, weighed, memories, llm, handlers>>

(***************************************************************************)
(* core/llm_client.py : one generate_json call against the service.        *)
(***************************************************************************)
\* what one invocation of the call may end in: the text of the completion, or
\* an exception of the client library (RateLimitError, APIConnectionError,
\* another APIError with its status_code, 0 for None) or any other Exception
CallOutcomes ==
    LET \* str(e) of an exception: any text (of letters and braces here)
        ErrorMessages ==
            UNION {[1..n -> {"x", "{", "}"}] : n \in 0..MaxMessageLen}
    IN  {[kind |-> "ok", status |-> 200, message |-> t] : t \in {<<"{", "}">>, <<"x">>}}
        \cup {[kind |-> k.kind, status |-> k.status, message |-> m] :
                  k \in {[kind |-> "RateLimitError", status |-> 429],
                         [kind |-> "APIConnectionError", status |-> 0],
                         [kind |-> "APIError", status |-> 0],
                         [kind |-> "APIError", status |-> 400],
                         [kind |-> "APIError", status |-> 500],
                         [kind |-> "Exception", status |-> 0]},
                  m \in ErrorMessages}

\* _retry_with_backoff sleeps and goes on after these
Retried(outcome) ==
    \/ outcome.kind \in {"RateLimitError", "APIConnectionError"}
    \/ outcome.kind = "APIError" /\ outcome.status # 0 /\ outcome.status >= 500

\* generate_json -> generate_with_system -> chat (not in mock mode), up to the
\* first invocation of _call by _retry_with_backoff
Chat ==
    /\ harness = "generation"
    /\ llm.pc = "idle"
    /\ llm' = [llm EXCEPT !.pc = "retrying"]
    /\ UNCHANGED <<setupVars, user_file, session_files, engineVars, webVars, events,
                   evaluated, calls, panel_result, weighed, memories, active_sessions,
                   storage, handlers>>

\* one pass of the loop of _retry_with_backoff, and when the loop is left what
\* chat and generate_json do with the text or the exception
Invoke(outcome) ==
    /\ harness = "generation"
    /\ llm.pc = "retrying"
    /\ llm.attempt < API_MAX_RETRIES
    /\ LET seen == [llm EXCEPT !.outcomes =
                        Append(@, [kind |-> outcome.kind, status |-> outcome.status])]
           slept == [seen EXCEPT !.last_error = [set |-> TRUE, message |-> outcome.message],
                                 !.waits = Append(@, API_RETRY_DELAY * 2^(llm.attempt)),
                                 !.attempt = @ + 1]
           \* chat returns the text, generate_json parses it (last_error, a local
           \* of _retry_with_backoff, is gone)
           Returning(client, text, failed) ==
               [set |-> TRUE, pc |-> "returned", attempt |-> client.attempt,
                outcomes |-> client.outcomes, waits |-> client.waits,
                last_error |-> NoneValue, text |-> text, failed |-> failed,
                parsed |-> ParseJsonText(text)]
           \* except Exception as e: return f"[...: {e}]"
           FailureText(message) == <<"[", "x">> \o message \o <<"]">>
       IN  llm' = IF outcome.kind = "ok" THEN Returning(seen, outcome.message, FALSE)
                  ELSE IF Retried(outcome)
                       THEN IF slept.attempt < API_MAX_RETRIES THEN slept
                            ELSE Returning(slept, FailureText(slept.last_error.message), TRUE)
                  ELSE Returning(seen, FailureText(outcome.message), TRUE)
    /\ UNCHANGED <<setupVars, user_file, session_files, engineVars, webVars, events,
                   evaluated, calls, panel_result, weighed, memories, active_sessions,
                   storage, handlers>>

Next ==
    \/ EngineNext
    \/ WebNext
    \/ Weigh
    \/ CandidateNext
    \/ ClientsNext
    \/ Chat
    \/ \E outcome \in CallOutcomes : Invoke(outcome)
    \/ \E final_score \in {0, 550, 560, 640} : NextSession(final_score)

Spec == Init /\ [][Next]_vars

\* the engine alone, under every setting
EngineSpec == EngineInit /\ [][EngineNext]_vars

\* a UserMemory object built over a record that an older version wrote
RecordNext ==
    /\ \E sid \in Sids : MemStart(sid)
    /\ UNCHANGED <<setupVars, session_files, engineVars, webVars, events, evaluated, calls,
                   panel_result, weighed, active_sessions, storage, llm, handlers>>

RecordSpec ==
    /\ Started("record", [config |-> ShippedConfig, callbacks |-> "observing"],
               {FileOf(data) : data \in OlderRecords})
    /\ [][RecordNext]_vars

\* one connection of the web transport whose submit_answer events are handled
\* by two threads at a time (a full interview)
ThreadsNext ==
    \/ WebStartInterview("full", "none")
    \/ \E thread \in Sids : PassGuard(thread)
    \/ \E thread \in Sids : ResetAndRead(thread)
    \/ \E thread \in Sids, response \in EvalResponses :
          EvaluateAndRecord(thread, LongAnswer, response)

ThreadsSpec ==
    /\ Started("threads", [config |-> ShippedConfig, callbacks |-> "observing"],
               {NoFile, FileOf(PriorData(MaxPriorHistory))})
    /\ [][ThreadsNext]_vars

(***************************************************************************)
(* Properties                                                              *)
(***************************************************************************)
\* a session exists: the engine has created its SessionMemory, or
\* active_sessions holds one for the connection
HasSession ==
    IF harness = "web" THEN active.set ELSE pc \notin {"NotStarted", "Rejected"}

CurrentSession ==
    IF ~HasSession THEN NewSession
    ELSE IF harness = "web" THEN active.session ELSE session

\* the RoundResults of the session, in the order appended
Rounds == CurrentSession.rounds

\* the roles of the non-follow-up RoundResults, in the order appended
MainRoles ==
    LET main == SelectSeq(Rounds, LAMBDA r : ~r.is_follow_up)
    IN  [i \in DOMAIN main |-> main[i].role.base]

\* the run goes through all the rounds (not a single practice round)
FullRun ==
    \/ harness = "full"
    \/ harness = "web" /\ active.set /\ active.mode = "full"

\* the question that awaits its answer
PendingQuestion ==
    IF harness = "web"
    THEN IF active.set /\ active.waiting_for_answer THEN active.current_question
         ELSE NoneValue
    ELSE IF pc = "RoundActive" THEN question ELSE NoneValue

FixedOrder == <<"HR", "HiringManager", "Technical", "CultureFit">>

IsPrefix(a, b) == Len(a) <= Len(b) /\ \A i \in DOMAIN a : a[i] = b[i]

C3_FullRunFollowsStateMachine ==
    harness = "full" =>
        /\ pc \in {"NotStarted", "RoundActive", "RoundComplete", "PanelSynthesis", "Finished"}
        /\ pc # "Finished" => ENABLED Next
        /\ calls.panel = (IF pc = "Finished" THEN 1 ELSE 0)

\* C4: whatever generate_json handed to evaluate_answer, evaluate_answer returned
\* a normalized evaluation record (it did not raise), and a full run is not
\* aborted by it.
C4_EvaluateAnswerNeverRaises ==
    evaluated.set =>
        /\ ~evaluated.evaluation.raised
        /\ harness = "full" /\ calls.panel = 0 => pc # "Aborted"

\* C5: a session appends at most one interviewHistory entry and saves the
\* candidate's record, its tag increments in it, at most once, whatever ends it.
C5_OneHistoryEntryPerSession ==
    calls.history_append <= 1 /\ calls.user_save <= 1

\* C6: a SessionMemory is persisted at most once, and once persisted the session
\* is the record that was written: no RoundResult and no final_evaluation was
\* added to it since.
C6_PersistedSessionIsFrozen ==
    /\ calls.session_save <= 1
    /\ (session_files # <<>> /\ HasSession) =>
           session_files[Len(session_files)] = SessionToDict(CurrentSession)

C8_MainStoresFollowUpScore ==
    \A i \in DOMAIN Rounds :
        (Rounds[i].is_follow_up /\ i > 1) => Rounds[i - 1].score = Rounds[i].score

\* run_single_round has completed a round with a follow-up
RoundWithFollowUpComplete ==
    /\ harness # "web"
    /\ pc = "RoundComplete"
    /\ Len(result.questions) = 2

\* C8 amended: when a round with a follow-up is complete, its non-follow-up
\* RoundResult stores the score of the main answer's evaluation and the follow-up
\* RoundResult after it stores the follow-up's; RoundResults already appended are
\* never changed.
C8_MainKeepsMainScore ==
    /\ [](RoundWithFollowUpComplete =>
            /\ Len(Rounds) >= 2
            /\ ~Rounds[Len(Rounds) - 1].is_follow_up
            /\ Rounds[Len(Rounds) - 1].score = result.questions[1].score
            /\ Rounds[Len(Rounds)].is_follow_up
            /\ Rounds[Len(Rounds)].score = result.questions[2].score)
    /\ [][(HasSession /\ HasSession') =>
            /\ Len(Rounds') >= Len(Rounds)
            /\ SubSeq(Rounds', 1, Len(Rounds)) = Rounds]_vars

\* a round is complete whose follow-up scored otherwise than its main answer
C8_FollowUpScoredDifferently ==
    /\ RoundWithFollowUpComplete
    /\ result.questions[1].score # result.questions[2].score

\* C9: the result run_single_round returns reports as final_score the score of the
\* last evaluate_answer call of the round: the follow-up's when the round had a
\* follow-up, the main one's otherwise.
C9_FinalScoreIsLastEvaluation ==
    (harness # "web" /\ pc = "RoundComplete") =>
        /\ result.final_score = evaluated.evaluation.score
        /\ result.final_score = result.questions[Len(result.questions)].score
        /\ result.questions[Len(result.questions)].is_follow_up
               = (Len(result.questions) = 2)

\* a round is complete whose follow-up scored higher than its main answer
C9_FollowUpRaisedTheScore ==
    /\ RoundWithFollowUpComplete
    /\ result.questions[1].score < result.final_score

\* C10: for a raw result that is an object with a numeric score (its tag lists not
\* null), _normalize_evaluation_result returns a record, and the score in it is
\* an integer of SCORE_MIN..SCORE_MAX.
C10_NumericScoreTruncatedAndClamped ==
    (/\ evaluated.set
     /\ evaluated.result.type = "dict"
     /\ ~evaluated.result.error
     /\ evaluated.result.score.t \in {"num", "bool", "nonfinite"}
     /\ evaluated.result.weakness_tags.t # "null"
     /\ evaluated.result.strength_tags.t # "null") =>
        /\ ~evaluated.evaluation.raised
        /\ evaluated.evaluation.score \in SCORE_MIN..SCORE_MAX

\* the tags of a tag map of CandidateMemory
TagsCounted(map) == {map[i].tag : i \in DOMAIN map}

\* the number of positions of a list that hold a tag of a set
Occurrences(list, S) == Cardinality({i \in DOMAIN list : list[i] \in S})

\* out is list without its tags outside the vocabulary, the others as they were
IsVocabularyPart(out, list, vocabulary) ==
    /\ Range(out) \subseteq vocabulary
    /\ Len(out) = Occurrences(list, vocabulary)
    /\ \A t \in vocabulary : Occurrences(out, {t}) = Occurrences(list, {t})
    /\ \A i, j \in DOMAIN out :
           i < j => \E k, l \in DOMAIN list : k < l /\ list[k] = out[i] /\ list[l] = out[j]

\* C11: the tags of a normalized evaluation are the vocabulary tags of the raw
\* lists, unchanged, the unknown ones removed; every tag stored in a RoundResult
\* and every tag counted in the candidate's record is a vocabulary tag.
C11_OnlyVocabularyTags ==
    /\ (evaluated.set /\ ~evaluated.evaluation.raised /\ ~evaluated.result.error) =>
           /\ IsVocabularyPart(evaluated.evaluation.weakness_tags,
                               evaluated.result.weakness_tags.items, WEAKNESS_TAGS)
           /\ IsVocabularyPart(evaluated.evaluation.strength_tags,
                               evaluated.result.strength_tags.items, STRENGTH_TAGS)
    /\ \A i \in DOMAIN Rounds :
           /\ Range(Rounds[i].weakness_tags) \subseteq WEAKNESS_TAGS
           /\ Range(Rounds[i].strength_tags) \subseteq STRENGTH_TAGS
    /\ user_file.exists =>
           /\ TagsCounted(user_file.data.weakness_tags) \subseteq WEAKNESS_TAGS
           /\ TagsCounted(user_file.data.strength_tags) \subseteq STRENGTH_TAGS

\* a full run is finished whose last evaluation came with unknown tags next to
\* vocabulary tags, and the candidate's record counts tags
C11_UnknownTagsDropped ==
    /\ harness = "full"
    /\ pc = "Finished"
    /\ ~evaluated.evaluation.raised
    /\ ~evaluated.result.error
    /\ UnknownTag \in Range(evaluated.result.weakness_tags.items)
    /\ evaluated.evaluation.weakness_tags # <<>>
    /\ user_file.data.weakness_tags # <<>>

\* C12: a raw result that carries the error marker is normalized to the fallback
\* record: score 5, no tags, no key points, the generic feedback text and the raw
\* payload of the result ("" when it has none), whatever else the result holds.
C12_ErrorMarkerGivesFallback ==
    (evaluated.set /\ evaluated.result.type = "dict" /\ evaluated.result.error) =>
        evaluated.evaluation =
            [raised |-> FALSE, score |-> 5, feedback |-> "generic_failure_text",
             weakness_tags |-> <<>>, strength_tags |-> <<>>, key_points |-> <<>>,
             raw_error |-> IF evaluated.result.raw = "absent" THEN ""
                           ELSE evaluated.result.raw]

\* a marked result that also holds a score of 9, tags, key points and a payload
C12_MarkedResultWithOtherFields ==
    /\ evaluated.set
    /\ evaluated.result.type = "dict"
    /\ evaluated.result.error
    /\ "score" \in DOMAIN evaluated.result
    /\ evaluated.result.score = NumTenths(90)
    /\ evaluated.result.weakness_tags.t = "list"
    /\ evaluated.result.raw = "model_payload"
    /\ evaluated.evaluation.score = 5

\* the should_follow_up call made with the last evaluation
Asked == evaluated.set /\ evaluated.decision.set

\* C13: should_follow_up answers by the first rule that matches: following up
\* disabled gives (false); a score below 6 gives (true, needs more detail); an
\* answer containing a trigger keyword gives (true, the reason naming the first
\* keyword of the configured list found in it); a trimmed answer of fewer than 50
\* characters gives (true, too brief); anything else gives (false).
C13_FirstMatchingRule ==
    Asked =>
        LET answer == evaluated.answer
            score == evaluated.evaluation.score
            found == {i \in DOMAIN TriggerKeywords : TriggerKeywords[i] \in answer.kws}
            decision == evaluated.decision.value
        IN  IF ~FOLLOW_UP_ENABLED THEN ~decision.follow /\ decision.reason = ""
            ELSE IF score < 6
                 THEN decision.follow /\ decision.reason = "needs_more_detail"
            ELSE IF found # {}
                 THEN /\ decision.follow
                      /\ decision.reason = "keyword"
                      /\ \E i \in found : /\ decision.kw = TriggerKeywords[i]
                                           /\ \A j \in found : i <= j
            ELSE IF answer.len < 50
                 THEN decision.follow /\ decision.reason = "too_brief"
            ELSE ~decision.follow /\ decision.reason = ""

\* an answer of 10 characters with no keyword, scored 7: followed up as too brief
C13_BriefAnswerScoredSeven ==
    /\ Asked
    /\ evaluated.answer = BriefAnswer
    /\ evaluated.evaluation.score = 7
    /\ evaluated.decision.value.follow
    /\ evaluated.decision.value.reason = "too_brief"

\* C14: the weighted composite is the sum of score * weight of the base role
\* over the sum of the weights of the base roles, taken over every RoundResult of
\* the session (a follow-up counting with its base role's weight, the divisor
\* being the weights of the entries present), to the nearest hundredth; HR = 8,
\* Technical = 4, CultureFit = 9 give 6.08.
C14_WeightedComposite ==
    weighed.set =>
        LET rounds == weighed.session.rounds
            ConfiguredWeight(base) ==
                CASE base = "HR" -> 15
                  [] base = "HiringManager" -> 25
                  [] base = "Technical" -> 35
                  [] base = "CultureFit" -> 15
            weights == [i \in DOMAIN rounds |-> ConfiguredWeight(rounds[i].role.base)]
            num == SumSeq([i \in DOMAIN rounds |-> rounds[i].score * weights[i]])
            den == SumSeq(weights)
            off == 100 * num - weighed.composite * den
        IN  /\ rounds = <<>> => weighed.composite = 0
            /\ 2 * off <= den /\ 2 * (0 - off) <= den
            /\ (/\ Len(rounds) = 3
                /\ \A i \in 1..3 : ~rounds[i].is_follow_up
                /\ rounds[1].role.base = "HR" /\ rounds[1].score = 8
                /\ rounds[2].role.base = "Technical" /\ rounds[2].score = 4
                /\ rounds[3].role.base = "CultureFit" /\ rounds[3].score = 9) =>
                   weighed.composite = 608

\* a weighed session holding a follow-up RoundResult, scored unlike its main one
C14_FollowUpWeighed ==
    /\ weighed.set
    /\ Len(weighed.session.rounds) = 4
    /\ weighed.session.rounds[2].is_follow_up
    /\ weighed.session.rounds[2].score # weighed.session.rounds[1].score
    /\ weighed.composite > 0

\* C15: two sessions whose RoundResults are the same multiset of (role, score)
\* pairs have the same weighted composite, whatever the order of the RoundResults.
C15_CompositeIgnoresOrder ==
    weighed.set => weighed.composite = weighed.recomposite

\* the count a tag map holds for a tag (0 when the tag is not in it)
CountOf(map, tag) == IF TagIndex(map, tag) = 0 THEN 0 ELSE map[TagIndex(map, tag)].n

\* no tag is counted lower in the second record than in the first
CountsKept(before, after) ==
    /\ \A tag \in WEAKNESS_TAGS :
           CountOf(before.weakness_tags, tag) <= CountOf(after.weakness_tags, tag)
    /\ \A tag \in STRENGTH_TAGS :
           CountOf(before.strength_tags, tag) <= CountOf(after.strength_tags, tag)

\* C16: over the sessions, loads and saves of one candidate id no tag count ever
\* decreases, neither in the persisted record nor in a UserMemory object.
C16_TagCountsNeverDecrease ==
    [][/\ user_file.exists => user_file'.exists /\ CountsKept(user_file.data, user_file'.data)
       /\ \A sid \in Sids :
              (memories[sid].set /\ memories'[sid].set) =>
                  CountsKept(memories[sid].data, memories'[sid].data)]_vars

\* two tag maps that count the same tags the same number of times
SameTagMap(m1, m2) == Range(m1) = Range(m2)

\* C17: after a save the statistics are a function of the history and of the tag
\* maps alone: any two saved records with equal histories and equal tag maps have
\* equal statistics.
C17_StatisticsFollowHistoryAndTags ==
    \A r1, r2 \in
           (IF user_file.exists THEN {user_file.data} ELSE {})
           \cup {memories[sid].data :
                     sid \in {i \in Sids : /\ memories[i].set
                                           /\ \/ memories[i].saves > 0
                                              \/ memories[i].data.interview_history # <<>>}} :
        (/\ r1.interview_history = r2.interview_history
         /\ SameTagMap(r1.weakness_tags, r2.weakness_tags)
         /\ SameTagMap(r1.strength_tags, r2.strength_tags)) =>
            r1.statistics = r2.statistics

\* C18: a record that was persisted, loaded and saved again with nothing done to
\* it in between is persisted with the statistics, tag maps and history it had,
\* however often the load and the save are repeated.
C18_LoadThenSaveChangesNothing ==
    [][\A sid \in Sids :
          (/\ user_file.exists
           /\ memories[sid].set
           /\ memories[sid].data = LoadUser(user_file)
           /\ memories'[sid].set
           /\ memories'[sid].saves = memories[sid].saves + 1) =>
              /\ user_file'.exists
              /\ user_file'.data.statistics = user_file.data.statistics
              /\ user_file'.data.weakness_tags = user_file.data.weakness_tags
              /\ user_file'.data.strength_tags = user_file.data.strength_tags
              /\ user_file'.data.interview_history = user_file.data.interview_history
              /\ memories'[sid].data = LoadUser(user_file')]_vars

\* the record of an earlier interview, loaded by a client and saved twice
C18_SavedTwiceAfterLoad ==
    /\ user_file = FileOf(PriorData(1))
    /\ \E sid \in Sids : /\ memories[sid].set
                         /\ memories[sid].saves = 2
                         /\ memories[sid].data = user_file.data

\* the panel-stage generation of run_full_interview handed back the error sentinel
PanelGenerationFailed ==
    /\ harness = "full"
    /\ panel_result.set
    /\ panel_result.result.type = "dict"
    /\ panel_result.result.error

C20_NonInterviewerPracticeRejected ==
    /\ harness = "practice" =>
           /\ question.set => question.role \in AgentKeys
           /\ pc = "Rejected" =>
                  /\ ~session.set
                  /\ ~question.set
                  /\ events = <<>>
                  /\ session_files = <<>>
                  /\ calls = NoCalls
    /\ (/\ harness = "web"
        /\ active.set
        /\ active.mode = "practice"
        /\ active.practice_round \notin AgentKeys \cup {"none"}) =>
           /\ \E i \in DOMAIN events : events[i].event = "error"
           /\ \A i \in DOMAIN events : events[i].event \notin {"round_start", "question"}
           /\ active.session.rounds = <<>>
           /\ ~active.waiting_for_answer
           /\ session_files = <<>>
           /\ calls.user_save = 0

\* C21: run_quick_practice runs one round: the session holds one RoundResult of
\* the requested role, or that one and its follow-up, and one question was asked
\* for each; the panel is never invoked; no step of it changes the candidate's
\* persisted record and no session record is written.
C21_QuickPracticePersistsNothing ==
    /\ [](harness = "practice" =>
            /\ calls = NoCalls
            /\ session_files = <<>>
            /\ pc \notin {"PanelSynthesis"}
            /\ ~panel_result.set
            /\ Len(Rounds) <= 2
            /\ \A i \in DOMAIN Rounds :
                   /\ Rounds[i].role.base = Rounds[1].role.base
                   /\ Rounds[i].is_follow_up <=> i = 2
            /\ LET asked == SelectSeq(events, LAMBDA e : e.event = "question")
               IN  /\ Len(asked) <= 2
                   /\ \A i \in DOMAIN asked : asked[i].follow_up <=> i = 2
            /\ pc = "Finished" =>
                   /\ Len(returned.questions) = Len(Rounds)
                   /\ returned.round = Rounds[1].role.base)
    /\ [][harness = "practice" => user_file' = user_file]_vars

\* a practice round with a follow-up has returned, the candidate's earlier record
\* still on disk
C21_PracticeWithFollowUpReturned ==
    /\ harness = "practice"
    /\ pc = "Finished"
    /\ Len(Rounds) = 2
    /\ user_file.exists

\* C22: whether the lifecycle callbacks are supplied or not, and whatever a
\* callback does with the dict it is handed, a run of run_full_interview stores
\* for each answer the RoundResult of the evaluation evaluate_answer returned for
\* it, and asks a follow-up exactly when the role's flag, should_follow_up on
\* that evaluation and the global switch say so: what is stored and what comes
\* next are determined by the answers and the generation results alone.
C22_CallbacksOnlyObserve ==
    [][(harness = "full" /\ Len(Rounds') = Len(Rounds) + 1) =>
          LET stored == Rounds'[Len(Rounds')]
              evaluation == evaluated'.evaluation
          IN  /\ stored.score = evaluation.score
              /\ stored.feedback = evaluation.feedback
              /\ stored.weakness_tags = evaluation.weakness_tags
              /\ stored.strength_tags = evaluation.strength_tags
              /\ ~stored.is_follow_up =>
                     ((question'.set /\ question'.follow_up)
                         <=> WantsFollowUp(stored.role.base, evaluated'.answer, evaluation))
    ]_vars

\* C23: when the answer provider raises while a question (main or follow-up)
\* awaits its answer, the step appends no RoundResult and writes neither the
\* candidate's record nor a session record; the cancelled run holds one
\* RoundResult less than questions were asked, has written no record at all and
\* made no save call, and nothing is written after it.
C23_CancelledRoundNotPersisted ==
    /\ [](pc = "Cancelled" =>
            /\ Len(Rounds) + 1 = Len(SelectSeq(events, LAMBDA e : e.event = "question"))
            /\ \A i \in DOMAIN Rounds :
                   ~(/\ Rounds[i].role.base = question.role
                     /\ Rounds[i].is_follow_up = question.follow_up)
            /\ session_files = <<>>
            /\ calls = NoCalls)
    /\ [][(pc' = "Cancelled" \/ pc = "Cancelled") =>
             /\ Rounds' = Rounds
             /\ user_file' = user_file
             /\ session_files' = session_files]_vars

\* a full run cancelled while the follow-up of its second round awaited its
\* answer, the candidate having an earlier record
C23_CancelledDuringFollowUp ==
    /\ harness = "full"
    /\ pc = "Cancelled"
    /\ question.follow_up
    /\ question.role = "HiringManager"
    /\ Len(Rounds) >= 2
    /\ user_file.exists

\* C24: sessions of one candidate id are serialized: at no time do two clients
\* hold a session (a UserMemory object) of the candidate id, and no save takes
\* an entry off the persisted interview history or lowers a persisted tag count
\* (no finished session's entry or tag increments are overwritten by the save of
\* an object loaded earlier).
C24_SessionsSerializedPerCandidate ==
    /\ [](Cardinality({sid \in Sids : memories[sid].set}) <= 1)
    /\ [][user_file.exists =>
             /\ user_file'.exists
             /\ IsPrefix(user_file.data.interview_history,
                         user_file'.data.interview_history)
             /\ \A tag \in WEAKNESS_TAGS \cup STRENGTH_TAGS :
                    /\ CountOf(user_file.data.weakness_tags, tag)
                           <= CountOf(user_file'.data.weakness_tags, tag)
                    /\ CountOf(user_file.data.strength_tags, tag)
                           <= CountOf(user_file'.data.strength_tags, tag)]_vars

\* C25: while two clients run sessions under different user_id values, in any
\* interleaving, each client's session (its RoundResults, its whole entry of
\* active_sessions, the events sent to it) and the files of its user_id are
\* those the same requests produce in a session run alone.
C25_DifferentCandidatesIndependent ==
    (/\ harness = "clients"
     /\ active_sessions[1].user_id # active_sessions[2].user_id) =>
        \A sid \in Sids :
            active_sessions[sid].sd.set =>
                LET mine == active_sessions[sid]
                    alone == Replay(mine.requests, Len(mine.requests), mine.user_id)
                IN  /\ mine.sd.session.rounds = alone.sd.session.rounds
                    /\ mine.sd = alone.sd
                    /\ mine.events = alone.events
                    /\ storage[mine.user_id].user_file = alone.user_file
                    /\ storage[mine.user_id].session_files = alone.session_files

\* both clients have finished a session with a follow-up under different
\* user_id values, and each record has gained its session's entry
C25_BothSessionsFinished ==
    /\ harness = "clients"
    /\ active_sessions[1].user_id = "guest"
    /\ active_sessions[2].user_id = "alice"
    /\ \A sid \in Sids :
           /\ Len(active_sessions[sid].sd.session.rounds) = 2
           /\ active_sessions[sid].calls.user_save = 1
    /\ Len(storage["alice"].user_file.data.interview_history) = 2
    /\ Len(storage["guest"].user_file.data.interview_history) = 1

\* C26: a RoundResult stored for an evaluation that fell back to the neutral
\* record (the generation result carried the error marker) can be told from one
\* stored for a genuine evaluation: it holds what the fallback holds (score 5,
\* the generic failure text, no tags), and no RoundResult of a genuine evaluation
\* holds the same.
C26_DegradedRoundTellsApart ==
    [][(harness \in {"full", "practice", "web"} /\ Len(Rounds') = Len(Rounds) + 1) =>
          LET stored == Rounds'[Len(Rounds')]
              fallback == [score |-> 5, feedback |-> "generic_failure_text",
                           weakness_tags |-> <<>>, strength_tags |-> <<>>]
          IN  evaluated'.result.error <=> [f \in DOMAIN fallback |-> stored[f]] = fallback
    ]_vars

\* C27: in run_single_round, under every setting, the step that records the main
\* answer asks a follow-up question if and only if the role's follow_up_enabled
\* flag is set, should_follow_up was called and answered yes, and the feature is
\* enabled; otherwise the round is complete with that one RoundResult and no
\* question pending; and a follow-up RoundResult is only ever recorded for a
\* follow-up question that was asked.
C27_FollowUpIffFlagDecisionAndFeature ==
    [][(harness \in {"full", "practice"} /\ Len(Rounds') = Len(Rounds) + 1) =>
          LET stored == Rounds'[Len(Rounds')]
              asked == question'.set /\ question'.follow_up
          IN  IF stored.is_follow_up
              THEN /\ question.set /\ question.follow_up
                   /\ question.role = stored.role.base
                   /\ ~asked
              ELSE /\ asked <=> /\ stored.role.base \in follow_up_config.roles
                                /\ evaluated'.decision.set
                                /\ evaluated'.decision.value.follow
                                /\ follow_up_config.enabled
                   /\ asked => pc' = "RoundActive" /\ question'.role = stored.role.base
                   /\ ~asked => pc' = "RoundComplete" /\ ~question'.set
    ]_vars

\* HR's flag is cleared: its round is complete with one RoundResult and no
\* question pending although the answer was brief and scored 5
C27_NoFollowUpWithoutRoleFlag ==
    /\ harness = "full"
    /\ "HR" \notin follow_up_config.roles
    /\ follow_up_config.enabled
    /\ pc = "RoundComplete"
    /\ Len(Rounds) = 1
    /\ Rounds[1].score = 5
    /\ evaluated.answer = BriefAnswer
    /\ ~question.set

\* C28: under every setting of max_follow_ups (0 included) no round has more
\* follow-ups asked than the cap: counting the follow-up RoundResults and a
\* follow-up question that awaits its answer, no more than max_follow_ups of
\* them come in a row after a round's main RoundResult.
C28_FollowUpsWithinCap ==
    harness \in {"full", "practice", "web"} =>
        LET cap == follow_up_config.max_follow_ups
            asked == [i \in DOMAIN Rounds |-> Rounds[i].is_follow_up]
                     \o (IF PendingQuestion.set /\ PendingQuestion.follow_up
                         THEN <<TRUE>> ELSE <<>>)
        IN  \A i \in DOMAIN asked : \E j \in (i - cap) .. i : j >= 1 /\ ~asked[j]

\* C29: in every session, of the engine and of the web transport, a follow-up
\* RoundResult (is_follow_up true) carries its base role with the follow-up
\* suffix and comes directly after the non-follow-up RoundResult of that base
\* role; every other RoundResult carries an unsuffixed role.
C29_FollowUpEntriesSuffixedAndAdjacent ==
    harness \in {"full", "practice", "web"} =>
        \A i \in DOMAIN Rounds :
            IF Rounds[i].is_follow_up
            THEN /\ Rounds[i].role.suffix = "_followup"
                 /\ i > 1
                 /\ ~Rounds[i - 1].is_follow_up
                 /\ Rounds[i - 1].role.base = Rounds[i].role.base
            ELSE Rounds[i].role.suffix = ""

\* C30: the panel result normalized from a generation result without error
\* marker has a whole final_score within 0..10 (the raw number truncated and
\* clamped, 5 when the raw value is no number), and its decision is the one the
\* score-to-decision table gives that score whenever the generation result has
\* no decision or one that is none of the table's decisions.
C30_PanelScoreClampedDecisionFromTable ==
    (/\ harness = "full"
     /\ panel_result.set
     /\ session.final_evaluation.set
     /\ ~panel_result.result.error) =>
        LET raw == panel_result.result
            final == session.final_evaluation
        IN  /\ final.final_score \in {100 * k : k \in SCORE_MIN .. SCORE_MAX}
            /\ raw.final_score.t = "num" =>
                   final.final_score = 100 * ClampScore(raw.final_score.v)
            /\ raw.final_score.t \notin {"num", "bool"} => final.final_score = 500
            /\ raw.decision \notin {GetScoreLevelDecision(k) : k \in SCORE_MIN .. SCORE_MAX} =>
                   final.decision = GetScoreLevelDecision(final.final_score \div 100)

\* C31: the step that stores the final evaluation (engine or web transport)
\* stores it with the comparative_analysis field if and only if the candidate's
\* interview history, as loaded for the session, was non-empty at that step;
\* without earlier history the field is absent, and the session record written
\* holds the final evaluation as stored.
C31_ComparativeIffPriorHistory ==
    [][/\ (harness = "full" /\ pc = "PanelSynthesis" /\ pc' = "Finished") =>
              /\ session'.final_evaluation.set
              /\ (session'.final_evaluation.comparative_analysis # "absent")
                     <=> user_memory.interview_history # <<>>
              /\ session_files'[Len(session_files')].final_evaluation
                     = session'.final_evaluation
       /\ (harness = "web" /\ active.set /\ active'.set
                           /\ ~active.session.final_evaluation.set
                           /\ active'.session.final_evaluation.set) =>
              (active'.session.final_evaluation.comparative_analysis # "absent")
                  <=> active.user_memory.interview_history # <<>>
    ]_vars

\* a first interview finished: the final evaluation is stored without the field
C31_FirstInterviewWithoutComparative ==
    /\ harness = "full"
    /\ pc = "Finished"
    /\ Len(user_memory.interview_history) = 1
    /\ session.final_evaluation.set
    /\ session.final_evaluation.comparative_analysis = "absent"
    /\ session_files[1].final_evaluation.comparative_analysis = "absent"

\* C32: when the generation call for the comparative narrative fails, the panel
\* step still completes and stores the final evaluation, and the final evaluation
\* stored (session, session record) has no comparative_analysis field: the text
\* that marks a failed call is never stored as the narrative.
C32_FailedNarrativeLeavesFieldAbsent ==
    /\ (harness = "full" /\ pc = "Finished") =>
           /\ session.final_evaluation.set
           /\ session.final_evaluation.comparative_analysis # "failure_placeholder"
           /\ session_files[Len(session_files)].final_evaluation.comparative_analysis
                  # "failure_placeholder"
    /\ (harness = "web" /\ active.set /\ active.session.final_evaluation.set) =>
           active.session.final_evaluation.comparative_analysis # "failure_placeholder"


\* the retry policy of _retry_with_backoff: at most API_MAX_RETRIES invocations,
\* another invocation only after a rate-limit, connection or 5xx error, and the
\* k-th wait lasting API_RETRY_DELAY * 2^(k-1) seconds
RetryPolicy ==
    harness = "generation" =>
        /\ Len(llm.outcomes) <= API_MAX_RETRIES
        /\ \A i \in 1..(Len(llm.outcomes) - 1) : Retried(llm.outcomes[i])
        /\ \A i \in DOMAIN llm.waits : llm.waits[i] = API_RETRY_DELAY * 2^(i - 1)
        /\ Len(llm.waits) = Cardinality({i \in DOMAIN llm.outcomes : Retried(llm.outcomes[i])})
        /\ llm.pc = "returned" =>
               llm.failed = (llm.outcomes[Len(llm.outcomes)].kind # "ok")

\* C33: chat never passes a failure on: the call is invoked at most
\* API_MAX_RETRIES (3) times, invoked again only after rate-limit, connection and
\* 5xx errors and after a wait of retry_delay * 2^attempt, and once the last
\* invocation has failed chat returns a marked placeholder text which
\* generate_json turns into the error dict.
C33_ChatDegradesToSentinel ==
    /\ RetryPolicy
    /\ (harness = "generation" /\ llm.pc = "returned" /\ llm.failed) =>
           /\ SubSeq(llm.text, 1, 2) = <<"[", "x">>
           /\ llm.parsed.error


\* C34: a UserMemory loaded from a stored record holds every top-level field of
\* the defaults, a missing one with its default value; in statistics, a
\* top-level map, every key missing in the stored map has its default value;
\* and every value the stored record holds, at either level, is kept as stored.
C34_LoadFillsMissingFromDefaults ==
    \A sid \in Sids :
        (harness = "record" /\ memories[sid].set) =>
            LET stored == user_file.data
                data == memories[sid].data
            IN  /\ DOMAIN data = DOMAIN DefaultProfile \cup DOMAIN stored
                /\ \A key \in DOMAIN DefaultProfile \ DOMAIN stored :
                      data[key] = DefaultProfile[key]
                /\ \A key \in DOMAIN stored \ {"statistics"} : data[key] = stored[key]
                /\ "statistics" \in DOMAIN stored =>
                      /\ DOMAIN data.statistics
                             = DOMAIN DefaultStatistics \cup DOMAIN stored.statistics
                      /\ \A k \in DOMAIN DefaultStatistics \ DOMAIN stored.statistics :
                            data.statistics[k] = DefaultStatistics[k]
                      /\ \A k \in DOMAIN stored.statistics :
                            data.statistics[k] = stored.statistics[k]

\* a record without interview_history and without two keys of its statistics
\* loaded: the missing ones filled, the stored ones and the foreign key kept
C34_OlderRecordLoaded ==
    /\ harness = "record"
    /\ memories[1].set
    /\ DOMAIN user_file.data = {"weakness_tags", "statistics", "legacy_field"}
    /\ DOMAIN user_file.data.statistics
           = {"total_interviews", "average_score", "best_score", "recent_trend",
              "legacy_field"}
    /\ memories[1].data.statistics.legacy_field = "stored"
    /\ memories[1].data.interview_history = <<>>
    /\ memories[1].data.statistics.most_common_weakness = ""
    /\ memories[1].data.statistics.recent_trend = "stable"
    /\ memories[1].data.statistics.average_score = 600
    /\ memories[1].data.legacy_field = "stored"


\* C35: the average score of a session, as its saved record states it, is the
\* mean of the scores of all its RoundResults, main and follow-up each counted
\* once, rounded to two decimals (a tie to the even hundredth), and 0.0 for a
\* session without rounds.
C35_AverageOverAllRoundResults ==
    \A f \in Range(session_files) \cup UNION {Range(storage[u].session_files) : u \in UserIds} :
        LET scores == Scores(f.rounds)
            off == 100 * SumSeq(scores) - f.average_score * Len(scores)
        IN  IF scores = <<>> THEN f.average_score = 0
            ELSE /\ 2 * off <= Len(scores)
                 /\ 2 * (0 - off) <= Len(scores)
                 /\ (2 * off = Len(scores) \/ 2 * (0 - off) = Len(scores)) =>
                        f.average_score % 2 = 0

\* a saved session with a follow-up scored unlike its main question and a mean
\* that is no whole number of hundredths before rounding
C35_FollowUpMovesTheAverage ==
    \E i \in DOMAIN session_files :
        LET f == session_files[i]
        IN  /\ \E k \in DOMAIN f.rounds :
                  /\ f.rounds[k].is_follow_up
                  /\ f.rounds[k].score # f.rounds[k - 1].score
            /\ (100 * SumSeq(Scores(f.rounds))) % Len(f.rounds) # 0
            /\ f.average_score > 0


\* C36: after every save recent_trend is improving, stable, declining or unset
\* (""): with four or more scored history entries it is improving when the mean
\* of the last three scores exceeds the mean of all earlier ones by more than
\* 0.5, declining when it is lower by more than 0.5 and stable otherwise, and
\* with fewer than four scored entries it is unset.
C36_RecentTrendFollowsScores ==
    (harness # "record" /\ user_file.exists) =>
        LET history == user_file.data.interview_history
            scores == SelectSeq([i \in DOMAIN history |-> history[i].final_score],
                                LAMBDA x : x # 0)
            n == Len(scores)
            recent3 == SumSeq(SubSeq(scores, n - 2, n))
            earlier == SumSeq(SubSeq(scores, 1, n - 3))
            trend == user_file.data.statistics.recent_trend
        IN  IF n < 4 THEN trend = ""
            ELSE IF recent3 * (n - 3) > earlier * 3 + 50 * 3 * (n - 3)
            THEN trend = "improving"
            ELSE IF recent3 * (n - 3) < earlier * 3 - 50 * 3 * (n - 3)
            THEN trend = "declining"
            ELSE trend = "stable"


\* C37: after every save total_interviews is the number of history entries,
\* average_score the mean, to two decimals, of final_score over all history
\* entries and best_score their maximum, entries with the final_score 0 included.
C37_StatisticsOverAllEntries ==
    (harness # "record" /\ user_file.exists) =>
        LET history == user_file.data.interview_history
            scores == [i \in DOMAIN history |-> history[i].final_score]
            stats == user_file.data.statistics
            off == SumSeq(scores) - stats.average_score * Len(scores)
        IN  /\ stats.total_interviews = Len(history)
            /\ history # <<>> =>
                   /\ 2 * off <= Len(scores)
                   /\ 2 * (0 - off) <= Len(scores)
                   /\ stats.best_score \in Range(scores)
                   /\ \A x \in Range(scores) : x <= stats.best_score


\* C38: in the web transport a question asked is evaluated and recorded at most
\* once: of two threads handling submit_answer or skip_question for the same
\* connection at most one is past the test of waiting_for_answer at a time, and
\* no question gets two RoundResults or advances the round twice.
C38_QuestionHandledOnce ==
    (harness = "threads" /\ active.set) =>
        LET rounds == active.session.rounds
        IN  /\ Cardinality({thread \in Sids : handlers[thread].pc # "idle"}) <= 1
            /\ \A i, j \in DOMAIN rounds :
                  (/\ rounds[i].role = rounds[j].role
                   /\ rounds[i].is_follow_up = rounds[j].is_follow_up) => i = j
            /\ active.current_round_index <= Len(RoundOrder)

\* the counts a finished session may leave: each tag of the de-duplicated union of
\* the RoundResults' tags one higher than before, every other tag as before
CountedOnce(before, after, rounds) ==
    /\ \A tag \in WEAKNESS_TAGS :
           CountOf(after.weakness_tags, tag) =
               CountOf(before.weakness_tags, tag) +
               (IF tag \in TagSetOf(rounds, "weakness_tags") THEN 1 ELSE 0)
    /\ \A tag \in STRENGTH_TAGS :
           CountOf(after.strength_tags, tag) =
               CountOf(before.strength_tags, tag) +
               (IF tag \in TagSetOf(rounds, "strength_tags") THEN 1 ELSE 0)

\* C39: a session changes the candidate's persisted tag counts once, when it is
\* completed, and then each tag of the de-duplicated union of its RoundResults'
\* tags (main and follow-up) is counted exactly one higher and every other tag
\* is counted as before, however many RoundResults carried the tag.
C39_SessionCountsEachTagOnce ==
    [][(/\ harness \in {"full", "web"}
        /\ user_file'.exists
        /\ \E key \in {"weakness_tags", "strength_tags"} :
               user_file'.data[key] # LoadUser(user_file)[key]) =>
           /\ calls.history_append = 0
           /\ CountedOnce(LoadUser(user_file), user_file'.data,
                          IF harness = "full" THEN session'.rounds
                          ELSE active'.session.rounds)]_vars
====
